---------------------------- MODULE Spec2Model ----------------------------
(***************************************************************************)
(* Singlish -> Sinhala transliteration: the batch converter (pattern       *)
(* table, greedy tokenizer, context-sensitive renderer) and the real-time  *)
(* IME (prefix trie, resolveBuffer, the SinglishIME buffer).               *)
(*                                                                         *)
(* Text is a sequence of one-character strings.  Output is a sequence of   *)
(* code points: a Sinhala code point is written "U+0D9A", a character      *)
(* that is copied from the input is written as that character.  A phoneme  *)
(* token is a string, as in the source: the name the table gives it, or    *)
(* the raw character when no table entry matched.                          *)
(***************************************************************************)
EXTENDS Integers, Sequences, FiniteSets, TLC

VARIABLES
  buffer,     \* SinglishIME.buffer: the pending Roman text
  typed,      \* keys passed to processKey since the buffer was last fresh
  committed,  \* concatenation of every output returned since then
  keysOnly,   \* TRUE while only processKey (then at most one flush) was called
  last,       \* the last call on the IME: its name, arguments and result
  other,      \* the buffer of a second SinglishIME instance
  host,       \* the component that owns the IME: hook, auto-attach or toggle
  text,       \* batch run: the argument of convertSinglishToSinhala
  pc,         \* batch run: "idle", "tokenize", "render" or "done"
  pos,        \* batch run: singlishToPhonemes' i
  phonemes,   \* batch run: singlishToPhonemes' phonemes
  idx,        \* batch run: phonemesToSinhala's i
  output,     \* batch run: phonemesToSinhala's output, joined
  steps       \* batch run: loop iterations executed so far

imeVars == <<buffer, typed, committed, keysOnly, last, other, host>>
batchVars == <<text, pc, pos, phonemes, idx, output, steps>>
vars == <<buffer, typed, committed, keysOnly, last, other, host,
          text, pc, pos, phonemes, idx, output, steps>>

\* ------------------------------------------------------------------------
\* Bounds of the model
\* ------------------------------------------------------------------------

\* keystrokes per IME session
MaxKeys == 3
\* keystrokes per session of the long-run specification
MaxLongKeys == 9
\* length of a batch input
MaxText == 3
\* later keystrokes considered after a commit
MaxLater == 2
\* surface units of a batch input of the rendering specification
MaxUnits == 3
\* length of a batch input of punctuation, digits and whitespace
MaxPreserved == 2
\* length of an input of convertLastWord
MaxWord == 3
\* length of an input of segmentText
MaxSegText == 3
\* patterns in a list given to buildTrie
MaxPatterns == 3
\* keystrokes per session, and pending characters of the second instance,
\* of the two-instance specification
MaxTwoKeys == 2
\* events on the textarea of the hook
MaxHookEvents == 4
\* calls and events on an auto-attach instance
MaxAttachEvents == 4
\* calls and clicks on the UI toggle
MaxToggleEvents == 5

\* keys typed in the IME specification: an extendable consonant, the
\* conjunct-forming consonant, two vowels, a preserved character, a
\* character with no pattern, and a character that only begins patterns
Keys == {"k", "r", "a", "u", " ", "K", "z"}
\* keys of the long-run specification
LongKeys == {"k", "a", "z"}
\* characters of batch inputs
Chars == {"k", "r", "a", "u", " ", "K", "#", "1"}

\* ------------------------------------------------------------------------
\* converter.ts: constants and tables
\* ------------------------------------------------------------------------

HAL == "U+0DCA"
ZWJ == "U+200D"

\* the value of an array or map read that finds nothing
UNDEFINED == "<undefined>"

SINGLISH_TO_PHONEME ==
  <<
     <<<<"z", "d", "h", "a">>, "SANYAKA_DHA">>,
     <<<<"c", "h", "h">>, "ASPIRATED_CH">>,
     <<<<"t", "h", "h">>, "ASPIRATED_TH">>,
     <<<<"d", "h", "h">>, "ASPIRATED_DH">>,
     <<<<"z", "g", "a">>, "SANYAKA_GA">>,
     <<<<"z", "j", "a">>, "SANYAKA_JA">>,
     <<<<"z", "d", "a">>, "SANYAKA_DA">>,
     <<<<"z", "q", "a">>, "SANYAKA_DHA">>,
     <<<<"z", "k", "a">>, "SANYAKA_KA">>,
     <<<<"z", "h", "a">>, "SANYAKA_HA">>, <<<<"a", "a">>, "V_AA">>,
     <<<<"A", "a">>, "V_AE_LONG">>, <<<<"A", "A">>, "V_AE_LONG">>,
     <<<<"a", "i">>, "V_AI">>, <<<<"a", "u">>, "V_AU">>,
     <<<<"o", "u">>, "V_AU">>, <<<<"i", "i">>, "V_II">>,
     <<<<"u", "u">>, "V_UU">>, <<<<"e", "e">>, "V_EE">>,
     <<<<"o", "o">>, "V_OO">>, <<<<"R", "u">>, "V_RU_LONG">>,
     <<<<"L", "u">>, "SPECIAL_LU">>, <<<<"k", "h">>, "KH">>,
     <<<<"g", "h">>, "GH">>, <<<<"c", "h">>, "CH">>,
     <<<<"p", "h">>, "PH">>, <<<<"b", "h">>, "BH">>,
     <<<<"t", "h">>, "TH">>, <<<<"d", "h">>, "DH">>,
     <<<<"S", "h">>, "RETROFLEX_S">>, <<<<"s", "h">>, "SH">>,
     <<<<"n", "g">>, "N_G">>, <<<<"T", "h">>, "RETROFLEX_TH">>,
     <<<<"D", "h">>, "RETROFLEX_DH">>, <<<<"B", "a">>, "SANYAKA_BA">>,
     <<<<"a">>, "V_A">>, <<<<"A">>, "V_AE">>, <<<<"i">>, "V_I">>,
     <<<<"u">>, "V_U">>, <<<<"U">>, "V_UU">>, <<<<"e">>, "V_E">>,
     <<<<"E">>, "V_EE">>, <<<<"o">>, "V_O">>, <<<<"O">>, "V_OO">>,
     <<<<"R">>, "V_RU">>, <<<<"k">>, "K">>, <<<<"g">>, "G">>,
     <<<<"j">>, "J">>, <<<<"t">>, "RETROFLEX_T">>,
     <<<<"d">>, "RETROFLEX_D">>, <<<<"T">>, "RETROFLEX_TH_SINGLE">>,
     <<<<"D">>, "RETROFLEX_DH_SINGLE">>, <<<<"n">>, "N">>,
     <<<<"N">>, "RETROFLEX_N">>, <<<<"p">>, "P">>, <<<<"b">>, "B_LOWER">>,
     <<<<"B">>, "SANYAKA_B">>, <<<<"m">>, "M">>, <<<<"y">>, "Y">>,
     <<<<"r">>, "R_CONS">>, <<<<"l">>, "L_CONS">>,
     <<<<"L">>, "RETROFLEX_L">>, <<<<"v">>, "V_CONS">>,
     <<<<"w">>, "V_CONS">>, <<<<"s">>, "S_CONS">>,
     <<<<"S">>, "RETROFLEX_S">>, <<<<"h">>, "H_CONS">>, <<<<"f">>, "F">>,
     <<<<"q">>, "DH">>, <<<<"x">>, "ANUSVARA">>,
     <<<<"X">>, "MAHAPRANAANUSVARA">>, <<<<"H">>, "VISARGA">>,
     <<<<" ">>, " ">>, <<<<"\n">>, "\n">>, <<<<"\t">>, "\t">>,
     <<<<":">>, ":">>, <<<<";">>, ";">>, <<<<".">>, ".">>,
     <<<<"-">>, "-">>, <<<<",">>, ",">>, <<<<"/">>, "/">>,
     <<<<"?">>, "?">>, <<<<"!">>, "!">>, <<<<"(">>, "(">>,
     <<<<")">>, ")">>, <<<<"[">>, "[">>, <<<<"]">>, "]">>,
     <<<<"\"">>, "\"">>, <<<<"'">>, "'">>, <<<<"0">>, "0">>,
     <<<<"1">>, "1">>, <<<<"2">>, "2">>, <<<<"3">>, "3">>,
     <<<<"4">>, "4">>, <<<<"5">>, "5">>, <<<<"6">>, "6">>,
     <<<<"7">>, "7">>, <<<<"8">>, "8">>, <<<<"9">>, "9">>
  >>

CONSONANT_MAP ==
  [
     K |-> "U+0D9A", KH |-> "U+0D9B", G |-> "U+0D9C", GH |-> "U+0D9D",
     CH |-> "U+0DA0", ASPIRATED_CH |-> "U+0DA1", J |-> "U+0DA2",
     RETROFLEX_T |-> "U+0DA7", RETROFLEX_TH |-> "U+0DA8",
     RETROFLEX_TH_SINGLE |-> "U+0DA8", RETROFLEX_D |-> "U+0DA9",
     RETROFLEX_DH |-> "U+0DAA", RETROFLEX_DH_SINGLE |-> "U+0DAA",
     RETROFLEX_N |-> "U+0DAB", TH |-> "U+0DAD", ASPIRATED_TH |-> "U+0DAE",
     DH |-> "U+0DAF", ASPIRATED_DH |-> "U+0DB0", N |-> "U+0DB1",
     P |-> "U+0DB4", PH |-> "U+0DB5", B_LOWER |-> "U+0DB6",
     BH |-> "U+0DB7", M |-> "U+0DB8", Y |-> "U+0DBA", R_CONS |-> "U+0DBB",
     L_CONS |-> "U+0DBD", RETROFLEX_L |-> "U+0DC5", V_CONS |-> "U+0DC0",
     SH |-> "U+0DC1", RETROFLEX_S |-> "U+0DC2", S_CONS |-> "U+0DC3",
     H_CONS |-> "U+0DC4", F |-> "U+0DC6"
  ]

SANYAKA_MAP ==
  [
     SANYAKA_GA |-> "U+0D9F", SANYAKA_JA |-> "U+0DA6",
     SANYAKA_DA |-> "U+0DAC", SANYAKA_DHA |-> "U+0DB3",
     SANYAKA_KA |-> "U+0DA4", SANYAKA_HA |-> "U+0DA5",
     SANYAKA_B |-> "U+0DB9", SANYAKA_BA |-> "U+0DB9"
  ]

VOWEL_STANDALONE ==
  [
     V_A |-> "U+0D85", V_AA |-> "U+0D86", V_AE |-> "U+0D87",
     V_AE_LONG |-> "U+0D88", V_I |-> "U+0D89", V_II |-> "U+0D8A",
     V_U |-> "U+0D8B", V_UU |-> "U+0D8C", V_RU |-> "U+0D8D",
     V_RU_LONG |-> "U+0D8E", V_E |-> "U+0D91", V_EE |-> "U+0D92",
     V_AI |-> "U+0D93", V_O |-> "U+0D94", V_OO |-> "U+0D95",
     V_AU |-> "U+0D96"
  ]

VOWEL_MODIFIER ==
  [
     V_AA |-> "U+0DCF", V_AE |-> "U+0DD0", V_AE_LONG |-> "U+0DD1",
     V_I |-> "U+0DD2", V_II |-> "U+0DD3", V_U |-> "U+0DD4",
     V_UU |-> "U+0DD6", V_E |-> "U+0DD9", V_EE |-> "U+0DDA",
     V_AI |-> "U+0DDB", V_O |-> "U+0DDC", V_OO |-> "U+0DDD",
     V_AU |-> "U+0DDE"
  ]

SPECIAL_MAP ==
  [
     ANUSVARA |-> <<"U+0D82">>, MAHAPRANAANUSVARA |-> <<"U+0D9E">>,
     VISARGA |-> <<"U+0D83">>, SPECIAL_LU |-> <<"U+0DC5", "U+0DD4">>
  ]

WordBoundaryTokens ==
  {" ", ".", ",", "!", "?", ";", ":", "\n", "\t", "-", "/", "(", ")", "[", "]", "\"", "'"}

N_G_TOKEN == "N_G"

\* CONSONANT_SET when CONSONANT_MAP also has an entry for the ng token
ConsonantsWithNG == DOMAIN CONSONANT_MAP \cup {N_G_TOKEN}

CONSONANT_SET == DOMAIN CONSONANT_MAP
SANYAKA_SET == DOMAIN SANYAKA_MAP
VOWEL_SET == DOMAIN VOWEL_STANDALONE
VOWEL_MODIFIER_SET == DOMAIN VOWEL_MODIFIER

\* ------------------------------------------------------------------------
\* JavaScript string and array primitives
\* ------------------------------------------------------------------------

Min(a, b) == IF a < b THEN a ELSE b

\* arr[i], 0-based; undefined outside the array
At(arr, i) == IF i >= 0 /\ i < Len(arr) THEN arr[i + 1] ELSE UNDEFINED

\* s.substring(from, to) and s.slice(from, to) for 0 <= from
substring(s, from, to) == SubSeq(s, from + 1, Min(to, Len(s)))

\* sliceFrom with the cut one character late
sliceFromNext(s, from) == SubSeq(s, from + 2, Len(s))

\* s.slice(from) for 0 <= from
sliceFrom(s, from) == SubSeq(s, from + 1, Len(s))

\* ------------------------------------------------------------------------
\* converter.ts: helper predicates
\* ------------------------------------------------------------------------

isConsonant(token) == token \in CONSONANT_SET

isSanyaka(token) == token \in SANYAKA_SET

isVowel(token) == token \in VOWEL_SET

isInherentA(token) == token = "V_A"

isVowelModifier(token) == token \in VOWEL_MODIFIER_SET

isWordBoundary(token) ==
  \/ token = UNDEFINED
  \/ token \in WordBoundaryTokens

isConjunctable(token) == token = "Y" \/ token = "R_CONS"

isSpecial(token) == token \in DOMAIN SPECIAL_MAP

\* ------------------------------------------------------------------------
\* converter.ts: tokenizer
\* ------------------------------------------------------------------------

\* FirstMatch taking the last matching entry of the table instead
LastMatch(txt, i) ==
  LET M == {k \in DOMAIN SINGLISH_TO_PHONEME :
              substring(txt, i, i + Len(SINGLISH_TO_PHONEME[k][1]))
                = SINGLISH_TO_PHONEME[k][1]}
  IN  IF M = {} THEN 0 ELSE CHOOSE k \in M : \A j \in M : k >= j

\* index of the first table entry whose pattern is at text[i..], 0 if none
FirstMatch(txt, i) ==
  LET M == {k \in DOMAIN SINGLISH_TO_PHONEME :
              substring(txt, i, i + Len(SINGLISH_TO_PHONEME[k][1]))
                = SINGLISH_TO_PHONEME[k][1]}
  IN  IF M = {} THEN 0 ELSE CHOOSE k \in M : \A j \in M : k <= j

\* TokenizerStep that advances by one character whatever the pattern
TokenizerStepByOne(txt, i) ==
  LET k == FirstMatch(txt, i)
  IN  IF k # 0
      THEN [phoneme |-> SINGLISH_TO_PHONEME[k][2], length |-> 1]
      ELSE [phoneme |-> txt[i + 1], length |-> 1]

\* one iteration of singlishToPhonemes' while loop at position i:
\* the phoneme pushed and the number of characters i advances by
TokenizerStep(txt, i) ==
  LET k == FirstMatch(txt, i)
  IN  IF k # 0
      THEN [phoneme |-> SINGLISH_TO_PHONEME[k][2],
            length  |-> Len(SINGLISH_TO_PHONEME[k][1])]
      ELSE [phoneme |-> txt[i + 1], length |-> 1]

RECURSIVE TokenizeFrom(_, _)
TokenizeFrom(txt, i) ==
  IF i < Len(txt)
  THEN LET s == TokenizerStep(txt, i)
       IN  <<s.phoneme>> \o TokenizeFrom(txt, i + s.length)
  ELSE <<>>

singlishToPhonemes(txt) == TokenizeFrom(txt, 0)

\* ------------------------------------------------------------------------
\* converter.ts: renderer
\* ------------------------------------------------------------------------

\* RenderNG that puts no virama on the g when no vowel follows
RenderNGBare(next) ==
  LET nChar == CONSONANT_MAP["N"]
      gChar == CONSONANT_MAP["G"]
  IN  IF next # UNDEFINED /\ isVowelModifier(next)
      THEN [out |-> <<nChar, HAL, gChar, VOWEL_MODIFIER[next]>>, advance |-> 2]
      ELSE IF next # UNDEFINED /\ isInherentA(next)
      THEN [out |-> <<nChar, HAL, gChar>>, advance |-> 2]
      ELSE [out |-> <<nChar, HAL, gChar>>, advance |-> 1]

\* the 'ng' branch of phonemesToSinhala
RenderNG(next) ==
  LET nChar == CONSONANT_MAP["N"]
      gChar == CONSONANT_MAP["G"]
  IN  IF next # UNDEFINED /\ isVowelModifier(next)
      THEN [out |-> <<nChar, HAL, gChar, VOWEL_MODIFIER[next]>>, advance |-> 2]
      ELSE IF next # UNDEFINED /\ isInherentA(next)
      THEN [out |-> <<nChar, HAL, gChar>>, advance |-> 2]
      ELSE IF next # UNDEFINED /\ isConsonant(next)
      THEN [out |-> <<nChar, HAL, gChar, HAL>>, advance |-> 1]
      ELSE [out |-> <<nChar, HAL, gChar, HAL>>, advance |-> 1]

\* RenderSanyaka that renders every token bare without reading the next one
RenderSanyakaBare(current, next) ==
  [out |-> <<SANYAKA_MAP[current]>>, advance |-> 1]

\* the sanyaka branch of phonemesToSinhala
RenderSanyaka(current, next) ==
  LET sanyakaChar == SANYAKA_MAP[current]
  IN  IF current = "SANYAKA_B"
      THEN IF next # UNDEFINED /\ isVowelModifier(next)
           THEN [out |-> <<sanyakaChar, VOWEL_MODIFIER[next]>>, advance |-> 2]
           ELSE IF next # UNDEFINED /\ isInherentA(next)
           THEN [out |-> <<sanyakaChar>>, advance |-> 2]
           ELSE IF next # UNDEFINED /\ (isConsonant(next) \/ isSanyaka(next))
           THEN [out |-> <<sanyakaChar, HAL>>, advance |-> 1]
           ELSE [out |-> <<sanyakaChar, HAL>>, advance |-> 1]
      ELSE IF current = "SANYAKA_BA"
      THEN [out |-> <<sanyakaChar>>, advance |-> 1]
      ELSE [out |-> <<sanyakaChar>>, advance |-> 1]

\* RenderConjunct without the joiner between the virama and the second glyph
RenderConjunctNoJoiner(current, next, afterConjunct) ==
  LET consonantChar == CONSONANT_MAP[current]
      conjunctChar == CONSONANT_MAP[next]
  IN  IF next = "R_CONS" /\ afterConjunct = "V_U"
      THEN [out |-> <<consonantChar, "U+0DD8">>, advance |-> 3]
      ELSE IF next = "R_CONS" /\ afterConjunct = "V_UU"
      THEN [out |-> <<consonantChar, "U+0DF2">>, advance |-> 3]
      ELSE IF afterConjunct # UNDEFINED /\ isVowelModifier(afterConjunct)
      THEN [out |-> <<consonantChar, HAL, conjunctChar,
                      VOWEL_MODIFIER[afterConjunct]>>, advance |-> 3]
      ELSE IF afterConjunct # UNDEFINED /\ isInherentA(afterConjunct)
      THEN [out |-> <<consonantChar, HAL, conjunctChar>>, advance |-> 3]
      ELSE [out |-> <<consonantChar, HAL, conjunctChar, HAL>>, advance |-> 2]

\* RenderConjunct without the two composed signs of r + u and r + uu
RenderConjunctNoRu(current, next, afterConjunct) ==
  LET consonantChar == CONSONANT_MAP[current]
      conjunctChar == CONSONANT_MAP[next]
  IN  IF afterConjunct # UNDEFINED /\ isVowelModifier(afterConjunct)
      THEN [out |-> <<consonantChar, HAL, ZWJ, conjunctChar,
                      VOWEL_MODIFIER[afterConjunct]>>, advance |-> 3]
      ELSE IF afterConjunct # UNDEFINED /\ isInherentA(afterConjunct)
      THEN [out |-> <<consonantChar, HAL, ZWJ, conjunctChar>>, advance |-> 3]
      ELSE [out |-> <<consonantChar, HAL, ZWJ, conjunctChar, HAL>>,
            advance |-> 2]

\* the conjunct branch of phonemesToSinhala: consonant + Y/R_CONS
RenderConjunct(current, next, afterConjunct) ==
  LET consonantChar == CONSONANT_MAP[current]
      conjunctChar == CONSONANT_MAP[next]
  IN  IF next = "R_CONS" /\ afterConjunct = "V_U"
      THEN [out |-> <<consonantChar, "U+0DD8">>, advance |-> 3]
      ELSE IF next = "R_CONS" /\ afterConjunct = "V_UU"
      THEN [out |-> <<consonantChar, "U+0DF2">>, advance |-> 3]
      ELSE IF afterConjunct # UNDEFINED /\ isVowelModifier(afterConjunct)
      THEN [out |-> <<consonantChar, HAL, ZWJ, conjunctChar,
                      VOWEL_MODIFIER[afterConjunct]>>, advance |-> 3]
      ELSE IF afterConjunct # UNDEFINED /\ isInherentA(afterConjunct)
      THEN [out |-> <<consonantChar, HAL, ZWJ, conjunctChar>>, advance |-> 3]
      ELSE IF afterConjunct # UNDEFINED
              /\ (isConsonant(afterConjunct) \/ isSanyaka(afterConjunct)
                  \/ afterConjunct = N_G_TOKEN)
      THEN [out |-> <<consonantChar, HAL, ZWJ, conjunctChar, HAL>>,
            advance |-> 2]
      ELSE [out |-> <<consonantChar, HAL, ZWJ, conjunctChar, HAL>>,
            advance |-> 2]

\* RenderPlain that leaves the inherent 'a' after the consonant unconsumed
RenderPlainKeepsA(current, next) ==
  LET consonantChar == CONSONANT_MAP[current]
  IN  IF next # UNDEFINED /\ isVowelModifier(next)
      THEN [out |-> <<consonantChar, VOWEL_MODIFIER[next]>>, advance |-> 2]
      ELSE IF next # UNDEFINED /\ isInherentA(next)
      THEN [out |-> <<consonantChar>>, advance |-> 1]
      ELSE IF next # UNDEFINED
              /\ (isConsonant(next) \/ isSanyaka(next) \/ next = N_G_TOKEN)
      THEN [out |-> <<consonantChar, HAL>>, advance |-> 1]
      ELSE IF isWordBoundary(next) \/ next = UNDEFINED
      THEN [out |-> <<consonantChar, HAL>>, advance |-> 1]
      ELSE [out |-> <<consonantChar>>, advance |-> 1]

\* the branches of a regular consonant that is not followed by Y/R_CONS
RenderPlain(current, next) ==
  LET consonantChar == CONSONANT_MAP[current]
  IN  IF next # UNDEFINED /\ isVowelModifier(next)
      THEN [out |-> <<consonantChar, VOWEL_MODIFIER[next]>>, advance |-> 2]
      ELSE IF next # UNDEFINED /\ isInherentA(next)
      THEN [out |-> <<consonantChar>>, advance |-> 2]
      ELSE IF next # UNDEFINED
              /\ (isConsonant(next) \/ isSanyaka(next) \/ next = N_G_TOKEN)
      THEN [out |-> <<consonantChar, HAL>>, advance |-> 1]
      ELSE IF isWordBoundary(next) \/ next = UNDEFINED
      THEN [out |-> <<consonantChar, HAL>>, advance |-> 1]
      ELSE IF next # UNDEFINED /\ isSpecial(next)
      THEN [out |-> <<consonantChar>>, advance |-> 1]
      ELSE [out |-> <<consonantChar>>, advance |-> 1]

\* the regular-consonant branch of phonemesToSinhala
RenderConsonant(current, next, afterConjunct) ==
  IF next # UNDEFINED /\ isConjunctable(next)
  THEN RenderConjunct(current, next, afterConjunct)
  ELSE RenderPlain(current, next)

\* RenderPassthrough without its i++
RenderPassthroughStuck(current) == [out |-> <<current>>, advance |-> 0]

\* RenderPassthrough that pushes nothing
RenderPassthroughDropped(current) == [out |-> <<>>, advance |-> 1]

\* the final branch of phonemesToSinhala: the token is pushed as it is
RenderPassthrough(current) == [out |-> <<current>>, advance |-> 1]

\* one iteration of phonemesToSinhala's while loop at index i:
\* the code points pushed and the number of tokens i advances by
RenderStep(ph, i) ==
  LET current == At(ph, i)
      next == At(ph, i + 1)
  IN  IF isSpecial(current)
      THEN [out |-> SPECIAL_MAP[current], advance |-> 1]
      ELSE IF current = N_G_TOKEN
      THEN RenderNG(next)
      ELSE IF isVowel(current) /\ ~isConsonant(current)
      THEN [out |-> <<VOWEL_STANDALONE[current]>>, advance |-> 1]
      ELSE IF isSanyaka(current)
      THEN RenderSanyaka(current, next)
      ELSE IF isConsonant(current)
      THEN RenderConsonant(current, next, At(ph, i + 2))
      ELSE RenderPassthrough(current)

RECURSIVE RenderFrom(_, _)
RenderFrom(ph, i) ==
  IF i < Len(ph)
  THEN LET s == RenderStep(ph, i)
       IN  s.out \o RenderFrom(ph, i + s.advance)
  ELSE <<>>

phonemesToSinhala(ph) == RenderFrom(ph, 0)

convertSinglishToSinhala(txt) ==
  IF txt = <<>> THEN txt ELSE phonemesToSinhala(singlishToPhonemes(txt))

\* ------------------------------------------------------------------------
\* ime-engine.ts: pattern list and classification
\* ------------------------------------------------------------------------

SINGLISH_PATTERNS ==
  <<
     <<"z", "d", "h", "a">>, <<"c", "h", "h">>, <<"t", "h", "h">>,
     <<"d", "h", "h">>, <<"z", "g", "a">>, <<"z", "j", "a">>,
     <<"z", "d", "a">>, <<"z", "q", "a">>, <<"z", "k", "a">>,
     <<"z", "h", "a">>, <<"a", "a">>, <<"A", "a">>, <<"A", "A">>,
     <<"a", "i">>, <<"a", "u">>, <<"o", "u">>, <<"i", "i">>, <<"u", "u">>,
     <<"e", "e">>, <<"o", "o">>, <<"R", "u">>, <<"L", "u">>, <<"k", "h">>,
     <<"g", "h">>, <<"c", "h">>, <<"p", "h">>, <<"b", "h">>, <<"t", "h">>,
     <<"d", "h">>, <<"S", "h">>, <<"s", "h">>, <<"n", "g">>, <<"T", "h">>,
     <<"D", "h">>, <<"B", "a">>, <<"a">>, <<"A">>, <<"i">>, <<"u">>,
     <<"U">>, <<"e">>, <<"E">>, <<"o">>, <<"O">>, <<"R">>, <<"k">>,
     <<"g">>, <<"j">>, <<"t">>, <<"d">>, <<"T">>, <<"D">>, <<"n">>,
     <<"N">>, <<"p">>, <<"b">>, <<"B">>, <<"m">>, <<"y">>, <<"r">>,
     <<"l">>, <<"L">>, <<"v">>, <<"w">>, <<"s">>, <<"S">>, <<"h">>,
     <<"f">>, <<"q">>, <<"x">>, <<"X">>, <<"H">>
  >>

CONSONANT_PATTERNS ==
  {
     <<"k">>, <<"k", "h">>, <<"g">>, <<"g", "h">>, <<"c", "h">>,
     <<"c", "h", "h">>, <<"j">>, <<"t">>, <<"T", "h">>, <<"d">>,
     <<"D", "h">>, <<"T">>, <<"D">>, <<"t", "h">>, <<"t", "h", "h">>,
     <<"d", "h">>, <<"d", "h", "h">>, <<"n">>, <<"N">>, <<"p">>,
     <<"p", "h">>, <<"b">>, <<"b", "h">>, <<"B">>, <<"B", "a">>, <<"m">>,
     <<"y">>, <<"r">>, <<"l">>, <<"L">>, <<"v">>, <<"w">>, <<"s", "h">>,
     <<"S", "h">>, <<"S">>, <<"s">>, <<"h">>, <<"f">>, <<"q">>,
     <<"n", "g">>, <<"z", "g", "a">>, <<"z", "j", "a">>, <<"z", "d", "a">>,
     <<"z", "d", "h", "a">>, <<"z", "q", "a">>, <<"z", "k", "a">>,
     <<"z", "h", "a">>
  }

VOWEL_PATTERNS ==
  {
     <<"a">>, <<"a", "a">>, <<"A">>, <<"A", "a">>, <<"A", "A">>, <<"i">>,
     <<"i", "i">>, <<"u">>, <<"u", "u">>, <<"U">>, <<"e">>, <<"e", "e">>,
     <<"E">>, <<"o">>, <<"o", "o">>, <<"O">>, <<"a", "i">>, <<"a", "u">>,
     <<"o", "u">>, <<"R">>, <<"R", "u">>
  }


\* ------------------------------------------------------------------------
\* ime-engine.ts: prefix trie
\* ------------------------------------------------------------------------

\* A trie node is named by the path that leads to it from the root; its
\* children map is the set of characters that have a child.
createTrieNode == [children |-> {}, isTerminal |-> FALSE]

buildTrie(patterns) ==
  LET paths == UNION {{SubSeq(patterns[k], 1, n) : n \in 0..Len(patterns[k])}
                        : k \in DOMAIN patterns}
  IN  [path \in paths |->
         [children   |-> {q[Len(path) + 1] :
                            q \in {r \in paths :
                                     /\ Len(r) = Len(path) + 1
                                     /\ SubSeq(r, 1, Len(path)) = path}},
          isTerminal |-> \E k \in DOMAIN patterns : patterns[k] = path]]

ROOT == buildTrie(SINGLISH_PATTERNS)

\* the node "no child": what node.children.get(ch) returns when it is absent
NoNode == <<UNDEFINED>>

\* the walk `for (const ch of str) { child = node.children.get(ch) ... }`
RECURSIVE Descend(_, _, _)
Descend(node, str, i) ==
  IF i > Len(str) THEN node
  ELSE IF str[i] \in ROOT[node].children
       THEN Descend(Append(node, str[i]), str, i + 1)
       ELSE NoNode

hasLongerPattern(str) ==
  IF Len(str) = 0 THEN TRUE
  ELSE LET node == Descend(<<>>, str, 1)
       IN  IF node = NoNode THEN FALSE
           ELSE Cardinality(ROOT[node].children) > 0

\* isTriePrefix whose descent never fails
isTriePrefixOfAny(str) == TRUE

isTriePrefix(str) ==
  IF Len(str) = 0 THEN TRUE
  ELSE Descend(<<>>, str, 1) # NoNode

RECURSIVE MatchWalk(_, _, _, _, _)
MatchWalk(buf, p, i, node, lastMatchLen) ==
  IF i < Len(buf) /\ buf[i + 1] \in ROOT[node].children
  THEN LET child == Append(node, buf[i + 1])
       IN  MatchWalk(buf, p, i + 1, child,
                     IF ROOT[child].isTerminal THEN i - p + 1
                     ELSE lastMatchLen)
  ELSE lastMatchLen

\* longestMatchAt whose walk ends after one character
oneCharMatchAt(buf, p) ==
  IF p < Len(buf)
     /\ buf[p + 1] \in ROOT[<<>>].children
     /\ ROOT[<<buf[p + 1]>>].isTerminal
  THEN 1 ELSE 0

longestMatchAt(buf, p) == MatchWalk(buf, p, p, <<>>, 0)

\* ------------------------------------------------------------------------
\* ime-engine.ts: resolveBuffer
\* ------------------------------------------------------------------------

\* the tokenizing loop: the tokens and trailingPrefixStart it ends with
RECURSIVE ScanTokens(_, _, _)
ScanTokens(buf, p, tokens) ==
  IF p < Len(buf)
  THEN LET matchLen == longestMatchAt(buf, p)
       IN  IF matchLen > 0
           THEN ScanTokens(buf, p + matchLen,
                  Append(tokens, [start |-> p, length |-> matchLen,
                                  pattern |-> substring(buf, p, p + matchLen),
                                  isPassthrough |-> FALSE]))
           ELSE IF isTriePrefix(<<buf[p + 1]>>)
           THEN [tokens |-> tokens, trailingPrefixStart |-> p]
           ELSE ScanTokens(buf, p + 1,
                  Append(tokens, [start |-> p, length |-> 1,
                                  pattern |-> <<buf[p + 1]>>,
                                  isPassthrough |-> TRUE]))
  ELSE [tokens |-> tokens, trailingPrefixStart |-> -1]

\* the loop of the trailing-prefix branch: cutIdx walks back over consonants
RECURSIVE CutWalk(_, _)
CutWalk(tokens, cutIdx) ==
  IF cutIdx > 0
     /\ ~tokens[cutIdx].isPassthrough
     /\ tokens[cutIdx].pattern \in CONSONANT_PATTERNS
  THEN CutWalk(tokens, cutIdx - 1)
  ELSE cutIdx

\* PendingWalk that never moves: only the last token stays pending
PendingNoWalk(tokens, pendingStart) == pendingStart

\* the loop of the main branch: pendingStart (0-based) walks back while the
\* previous token is a consonant and the pending one a vowel or extendable
RECURSIVE PendingWalk(_, _)
PendingWalk(tokens, pendingStart) ==
  IF pendingStart > 0
     /\ ~tokens[pendingStart].isPassthrough
     /\ tokens[pendingStart].pattern \in CONSONANT_PATTERNS
     /\ ~tokens[pendingStart + 1].isPassthrough
     /\ (\/ tokens[pendingStart + 1].pattern \in VOWEL_PATTERNS
         \/ hasLongerPattern(tokens[pendingStart + 1].pattern))
  THEN PendingWalk(tokens, pendingStart - 1)
  ELSE pendingStart

resolveBuffer(buf) ==
  IF buf = <<>> THEN [toCommit |-> <<>>, remaining |-> <<>>]
  ELSE
    LET scan == ScanTokens(buf, 0, <<>>)
        tokens == scan.tokens
        lastIdx == Len(tokens) - 1
        lastToken == tokens[lastIdx + 1]
    IN  IF Len(tokens) = 0
        THEN [toCommit |-> <<>>, remaining |-> buf]
        ELSE IF scan.trailingPrefixStart >= 0
        THEN LET cutIdx == CutWalk(tokens, Len(tokens))
                 commitEnd == IF cutIdx > 0
                              THEN tokens[cutIdx].start + tokens[cutIdx].length
                              ELSE 0
             IN  IF commitEnd = 0
                 THEN [toCommit |-> <<>>, remaining |-> buf]
                 ELSE [toCommit |->
                         convertSinglishToSinhala(substring(buf, 0, commitEnd)),
                       remaining |-> sliceFrom(buf, commitEnd)]
        ELSE IF Len(tokens) = 1
        THEN IF lastToken.isPassthrough
             THEN [toCommit |-> lastToken.pattern, remaining |-> <<>>]
             ELSE [toCommit |-> <<>>, remaining |-> buf]
        ELSE LET pendingStart == PendingWalk(tokens, lastIdx)
                 commitEnd == tokens[pendingStart + 1].start
             IN  IF commitEnd = 0
                 THEN [toCommit |-> <<>>, remaining |-> buf]
                 ELSE [toCommit |->
                         convertSinglishToSinhala(substring(buf, 0, commitEnd)),
                       remaining |-> sliceFrom(buf, commitEnd)]

\* ------------------------------------------------------------------------
\* ime-engine.ts: class SinglishIME
\* ------------------------------------------------------------------------

\* getSpeculativeDisplay returning the buffer as it is typed
getSpeculativeDisplayRaw(buf) == buf

getSpeculativeDisplay(buf) ==
  IF buf = <<>> THEN <<>> ELSE convertSinglishToSinhala(buf)

\* what a call leaves in `last`
Call(op, key, before, toCommit, remaining, ok, prevOp, prevBefore) ==
  [op |-> op, key |-> key, before |-> before, toCommit |-> toCommit,
   remaining |-> remaining, ok |-> ok, prevOp |-> prevOp,
   prevBefore |-> prevBefore]

\* StoredBuffer when processKey keeps nothing: this.buffer = ''
StoredNothing(result) == <<>>

\* the buffer processKey stores: this.buffer = result.remaining
StoredBuffer(result) == result.remaining

\* DropLast removing the first character instead: this.buffer.slice(1)
DropFirst(buf) == SubSeq(buf, 2, Len(buf))

\* DropLast removing the last two characters: this.buffer.slice(0, -2)
DropLastTwo(buf) == SubSeq(buf, 1, Len(buf) - 2)

\* the buffer backspace leaves: this.buffer.slice(0, -1)
DropLast(buf) == SubSeq(buf, 1, Len(buf) - 1)

\* processKey(key), at most max keys per session.  A key after a flush
\* starts a new session: the buffer is empty as in a new instance.
ProcessKey(key, max) ==
  /\ pc = "idle"
  /\ Len(typed) < max \/ last.op = "flush"
  /\ LET result == resolveBuffer(buffer \o <<key>>)
         fresh == last.op = "flush"
     IN  /\ buffer' = StoredBuffer(result)
         /\ typed' = IF fresh THEN <<key>> ELSE Append(typed, key)
         /\ committed' = IF fresh THEN result.toCommit
                         ELSE committed \o result.toCommit
         /\ keysOnly' = (fresh \/ keysOnly)
         /\ last' = Call("processKey", key, buffer, result.toCommit,
                         result.remaining, TRUE, "", <<>>)
  /\ UNCHANGED <<other, host>>
  /\ UNCHANGED batchVars

\* backspace().  The session goes on from the buffer it leaves.
Backspace ==
  /\ pc = "idle"
  /\ IF Len(buffer) > 0
     THEN /\ buffer' = DropLast(buffer)
          /\ typed' = buffer'
          /\ committed' = <<>>
          /\ keysOnly' = FALSE
          /\ last' = Call("backspace", "", buffer, <<>>, <<>>, TRUE, "", <<>>)
     ELSE /\ last' = Call("backspace", "", buffer, <<>>, <<>>, FALSE, "", <<>>)
          /\ UNCHANGED <<buffer, typed, committed, keysOnly>>
  /\ UNCHANGED <<other, host>>
  /\ UNCHANGED batchVars

\* flush() that returns the conversion and leaves the buffer as it is
FlushKeepsBuffer ==
  /\ pc = "idle"
  /\ last.op # "flush"
  /\ LET converted == IF buffer = <<>> THEN <<>>
                      ELSE convertSinglishToSinhala(buffer)
     IN  /\ committed' = committed \o converted
         /\ last' = Call("flush", "", buffer, converted, <<>>, TRUE, "", <<>>)
  /\ UNCHANGED <<buffer, typed, keysOnly>>
  /\ UNCHANGED <<other, host>>
  /\ UNCHANGED batchVars

\* flush()
Flush ==
  /\ pc = "idle"
  /\ last.op # "flush"
  /\ LET converted == IF buffer = <<>> THEN <<>>
                      ELSE convertSinglishToSinhala(buffer)
     IN  /\ buffer' = <<>>
         /\ committed' = committed \o converted
         /\ last' = Call("flush", "", buffer, converted, <<>>, TRUE, "", <<>>)
  /\ UNCHANGED <<typed, keysOnly>>
  /\ UNCHANGED <<other, host>>
  /\ UNCHANGED batchVars

\* reset() when the buffer is shared by the instances (a static field)
ResetShared ==
  /\ pc = "idle"
  /\ buffer' = <<>>
  /\ other' = <<>>
  /\ typed' = <<>>
  /\ committed' = <<>>
  /\ keysOnly' = TRUE
  /\ last' = Call("reset", "", buffer, <<>>, <<>>, TRUE, "", <<>>)
  /\ UNCHANGED host
  /\ UNCHANGED batchVars

\* reset()
Reset ==
  /\ pc = "idle"
  /\ buffer' = <<>>
  /\ typed' = <<>>
  /\ committed' = <<>>
  /\ keysOnly' = TRUE
  /\ last' = Call("reset", "", buffer, <<>>, <<>>, TRUE, "", <<>>)
  /\ UNCHANGED <<other, host>>
  /\ UNCHANGED batchVars

\* getSpeculativeDisplay(); the call before the displays is kept for
\* reference, so that a repeated display leaves the same record
GetSpeculativeDisplay ==
  /\ pc = "idle"
  /\ last' = Call("getSpeculativeDisplay", "", buffer,
                  getSpeculativeDisplay(buffer), <<>>, last.ok,
                  IF last.op = "getSpeculativeDisplay" THEN last.prevOp
                  ELSE last.op,
                  IF last.op = "getSpeculativeDisplay" THEN last.prevBefore
                  ELSE last.before)
  /\ UNCHANGED <<buffer, typed, committed, keysOnly>>
  /\ UNCHANGED <<other, host>>
  /\ UNCHANGED batchVars

\* getBuffer()
GetBuffer ==
  /\ pc = "idle"
  /\ last' = Call("getBuffer", "", buffer, buffer, <<>>, TRUE, "", <<>>)
  /\ UNCHANGED <<buffer, typed, committed, keysOnly>>
  /\ UNCHANGED <<other, host>>
  /\ UNCHANGED batchVars

\* hasPending()
HasPending ==
  /\ pc = "idle"
  /\ last' = Call("hasPending", "", buffer, <<>>, <<>>, Len(buffer) > 0,
                  "", <<>>)
  /\ UNCHANGED <<buffer, typed, committed, keysOnly>>
  /\ UNCHANGED <<other, host>>
  /\ UNCHANGED batchVars

\* ------------------------------------------------------------------------
\* converter.ts: convertSinglishToSinhala, one loop iteration per step
\* ------------------------------------------------------------------------

\* `if (!text) return text`, else singlishToPhonemes starts
ConvertStart ==
  /\ pc = "start"
  /\ IF text = <<>>
     THEN /\ pc' = "done"
          /\ output' = text
     ELSE /\ pc' = "tokenize"
          /\ output' = <<>>
  /\ pos' = 0
  /\ phonemes' = <<>>
  /\ idx' = 0
  /\ steps' = 0
  /\ UNCHANGED <<text>>
  /\ UNCHANGED imeVars

\* one iteration of `while (i < text.length)` in singlishToPhonemes
TokenizeIteration ==
  /\ pc = "tokenize"
  /\ pos < Len(text)
  /\ LET s == TokenizerStep(text, pos)
     IN  /\ phonemes' = Append(phonemes, s.phoneme)
         /\ pos' = pos + s.length
  /\ steps' = steps + 1
  /\ UNCHANGED <<text, pc, idx, output>>
  /\ UNCHANGED imeVars

\* singlishToPhonemes returns, phonemesToSinhala starts
TokenizeReturn ==
  /\ pc = "tokenize"
  /\ ~(pos < Len(text))
  /\ pc' = "render"
  /\ idx' = 0
  /\ output' = <<>>
  /\ UNCHANGED <<text, pos, phonemes, steps>>
  /\ UNCHANGED imeVars

\* one iteration of `while (i < phonemes.length)` in phonemesToSinhala
RenderIteration ==
  /\ pc = "render"
  /\ idx < Len(phonemes)
  /\ LET s == RenderStep(phonemes, idx)
     IN  /\ output' = output \o s.out
         /\ idx' = idx + s.advance
  /\ steps' = steps + 1
  /\ UNCHANGED <<text, pc, pos, phonemes>>
  /\ UNCHANGED imeVars

\* phonemesToSinhala returns output.join('')
RenderReturn ==
  /\ pc = "render"
  /\ ~(idx < Len(phonemes))
  /\ pc' = "done"
  /\ UNCHANGED <<text, pos, phonemes, idx, output, steps>>
  /\ UNCHANGED imeVars

\* ------------------------------------------------------------------------
\* Specifications
\* ------------------------------------------------------------------------

\* all texts of at most n characters of S
Texts(S, n) == UNION {[1..m -> S] : m \in 0..n}

NoCall == Call("new", "", <<>>, <<>>, <<>>, TRUE, "", <<>>)

\* no component owns the IME: it is called directly
NoHost == [component |-> "none"]

InitIME ==
  /\ buffer = <<>>
  /\ other = <<>>
  /\ host = NoHost
  /\ typed = <<>>
  /\ committed = <<>>
  /\ keysOnly = TRUE
  /\ last = NoCall

InitNoBatch ==
  /\ text = <<>>
  /\ pc = "idle"
  /\ pos = 0
  /\ phonemes = <<>>
  /\ idx = 0
  /\ output = <<>>
  /\ steps = 0

\* the IME: a new SinglishIME and any calls on it
Init == InitIME /\ InitNoBatch

Next ==
  \/ \E key \in Keys : ProcessKey(key, MaxKeys)
  \/ Backspace
  \/ Flush
  \/ Reset
  \/ GetSpeculativeDisplay

Spec == Init /\ [][Next]_vars

\* the IME under a long run of keys, processKey only
NextLong == \E key \in LongKeys : ProcessKey(key, MaxLongKeys)

SpecLong == Init /\ [][NextLong]_vars

\* the batch converter on every text of at most MaxText characters
InitBatch ==
  /\ InitIME
  /\ text \in Texts(Chars, MaxText)
  /\ pc = "start"
  /\ pos = 0
  /\ phonemes = <<>>
  /\ idx = 0
  /\ output = <<>>
  /\ steps = 0

NextBatch ==
  \/ ConvertStart
  \/ TokenizeIteration
  \/ TokenizeReturn
  \/ RenderIteration
  \/ RenderReturn

SpecBatch == InitBatch /\ [][NextBatch]_vars

\* the surface units the rendering rules are about: consonants, the
\* conjunct-forming r and y, vowels, the ng digraph, nasalized consonants,
\* a special sign and a word boundary
RenderUnits ==
  {<<"k">>, <<"r">>, <<"y">>, <<"a">>, <<"i">>, <<"u">>, <<"U">>,
   <<"n", "g">>, <<"B">>, <<"z", "g", "a">>, <<"x">>, <<" ">>}

\* the units of a sequence of units, one after the other
RECURSIVE Flatten(_)
Flatten(units) ==
  IF units = <<>> THEN <<>> ELSE Head(units) \o Flatten(Tail(units))

\* all texts made of at most n units of U
UnitTexts(U, n) == {Flatten(s) : s \in UNION {[1..m -> U] : m \in 0..n}}

\* the batch converter on every text of at most MaxUnits surface units
InitRender ==
  /\ InitIME
  /\ text \in UnitTexts(RenderUnits, MaxUnits)
  /\ pc = "start"
  /\ pos = 0
  /\ phonemes = <<>>
  /\ idx = 0
  /\ output = <<>>
  /\ steps = 0

SpecRender == InitRender /\ [][NextBatch]_vars

\* the IME typed into and read between the keys
NextQuery ==
  \/ \E key \in Keys : ProcessKey(key, MaxKeys)
  \/ GetSpeculativeDisplay
  \/ GetBuffer
  \/ HasPending

SpecQuery == Init /\ [][NextQuery]_vars

\* ------------------------------------------------------------------------
\* converter.ts: convertLastWord
\* ------------------------------------------------------------------------

\* the loop of convertLastWord: the last index i (0-based) at or before
\* from with text[i] a space or a newline, -1 if there is none
RECURSIVE LastBoundaryFrom(_, _)
LastBoundaryFrom(txt, i) ==
  IF i >= 0
  THEN IF At(txt, i) = " " \/ At(txt, i) = "\n"
       THEN i
       ELSE LastBoundaryFrom(txt, i - 1)
  ELSE -1

convertLastWord(txt) ==
  IF txt = <<>> THEN txt
  ELSE LET lastBoundary == LastBoundaryFrom(txt, Len(txt) - 1)
       IN  IF lastBoundary = -1
           THEN convertSinglishToSinhala(txt)
           ELSE LET prefix == substring(txt, 0, lastBoundary + 1)
                    lastWord == sliceFrom(txt, lastBoundary + 1)
                IN  IF lastWord = <<>> THEN txt
                    ELSE prefix \o convertSinglishToSinhala(lastWord)

\* a call of convertLastWord(text)
ConvertLastWord ==
  /\ pc = "start"
  /\ pc' = "convertLastWord"
  /\ output' = convertLastWord(text)
  /\ UNCHANGED <<text, pos, phonemes, idx, steps>>
  /\ UNCHANGED imeVars

\* the characters of the inputs of convertLastWord: two letters and the
\* whitespace characters of the table
WordChars == {"k", "a", " ", "\n", "\t"}

\* convertLastWord on every text of at most MaxWord characters
InitLastWord ==
  /\ InitIME
  /\ text \in Texts(WordChars, MaxWord)
  /\ pc = "start"
  /\ pos = 0
  /\ phonemes = <<>>
  /\ idx = 0
  /\ output = <<>>
  /\ steps = 0

NextLastWord == ConvertLastWord

SpecLastWord == InitLastWord /\ [][NextLastWord]_vars

\* ------------------------------------------------------------------------
\* converter.ts: isSinhalaChar, segmentText
\* ------------------------------------------------------------------------

\* the characters of the inputs of segmentText: a letter, a space, two
\* Sinhala characters, the first and the last code point of the Sinhala
\* block, the code points next to the block on either side, and the joiner
SegChars ==
  {"k", " ", "U+0D9A", "U+0DCA", "U+0D80", "U+0DFF", "U+0D7F", "U+0E00",
   "U+200D"}

\* char.charCodeAt(0) of these characters
charCodeAt ==
  [c \in SegChars |->
     CASE c = "k" -> 107
       [] c = " " -> 32
       [] c = "U+0D9A" -> 3482
       [] c = "U+0DCA" -> 3530
       [] c = "U+0D80" -> 3456
       [] c = "U+0DFF" -> 3583
       [] c = "U+0D7F" -> 3455
       [] c = "U+0E00" -> 3584
       [] c = "U+200D" -> 8205]

\* isSinhalaChar with both ends of the range left out
isSinhalaCharExclusive(char) ==
  charCodeAt[char] > 3456 /\ charCodeAt[char] < 3583

\* code >= 0x0D80 && code <= 0x0DFF
isSinhalaChar(char) ==
  charCodeAt[char] >= 3456 /\ charCodeAt[char] <= 3583

\* the for loop of segmentText from character i (1-based) on, and the push
\* after it; currentIsSinhala is <<>> for null and <<b>> for the boolean b
NoFlag == <<>>

RECURSIVE SegmentFrom(_, _, _, _, _)
SegmentFrom(txt, i, segments, currentSegment, currentIsSinhala) ==
  IF i <= Len(txt)
  THEN LET char == txt[i]
           charIsSinhala == <<isSinhalaChar(char)>>
           flag == IF currentIsSinhala = NoFlag THEN charIsSinhala
                   ELSE currentIsSinhala
       IN  IF charIsSinhala = flag
           THEN SegmentFrom(txt, i + 1, segments,
                            Append(currentSegment, char), flag)
           ELSE SegmentFrom(txt, i + 1,
                  IF currentSegment # <<>>
                  THEN Append(segments, [text |-> currentSegment,
                                         isSinhala |-> flag[1]])
                  ELSE segments,
                  <<char>>, charIsSinhala)
  ELSE IF currentSegment # <<>> /\ currentIsSinhala # NoFlag
       THEN Append(segments, [text |-> currentSegment,
                              isSinhala |-> currentIsSinhala[1]])
       ELSE segments

segmentText(txt) == SegmentFrom(txt, 1, <<>>, <<>>, NoFlag)

\* a call of segmentText(text)
SegmentText ==
  /\ pc = "start"
  /\ pc' = "segmentText"
  /\ output' = segmentText(text)
  /\ UNCHANGED <<text, pos, phonemes, idx, steps>>
  /\ UNCHANGED imeVars

\* segmentText on every text of at most MaxSegText characters
InitSegment ==
  /\ InitIME
  /\ text \in Texts(SegChars, MaxSegText)
  /\ pc = "start"
  /\ pos = 0
  /\ phonemes = <<>>
  /\ idx = 0
  /\ output = <<>>
  /\ steps = 0

NextSegment == SegmentText

SpecSegment == InitSegment /\ [][NextSegment]_vars

\* ------------------------------------------------------------------------
\* ime-engine.ts: buildTrie on any pattern list
\* ------------------------------------------------------------------------

\* the patterns of the lists given to buildTrie
SomePatterns == {<<"a">>, <<"a", "a">>, <<"k">>, <<"k", "h">>}

\* a call of buildTrie(patterns), the list being in `text`; the function
\* has no throw statement and no other exit than `return root`
BuildTrie ==
  /\ pc = "start"
  /\ pc' = "built"
  /\ output' = buildTrie(text)
  /\ UNCHANGED <<text, pos, phonemes, idx, steps>>
  /\ UNCHANGED imeVars

\* buildTrie on every list of at most MaxPatterns patterns
InitRegistry ==
  /\ InitIME
  /\ text \in Texts(SomePatterns, MaxPatterns)
  /\ pc = "start"
  /\ pos = 0
  /\ phonemes = <<>>
  /\ idx = 0
  /\ output = <<>>
  /\ steps = 0

NextRegistry == BuildTrie

SpecRegistry == InitRegistry /\ [][NextRegistry]_vars

\* ------------------------------------------------------------------------
\* ime-engine.ts: two SinglishIME instances and the trie they share
\* ------------------------------------------------------------------------

\* the calls on the second instance, which has the buffer `other`
OtherProcessKey(key) ==
  /\ pc = "idle"
  /\ Len(other) < MaxTwoKeys
  /\ other' = StoredBuffer(resolveBuffer(other \o <<key>>))
  /\ UNCHANGED <<buffer, typed, committed, keysOnly, last, host>>
  /\ UNCHANGED batchVars

OtherBackspace ==
  /\ pc = "idle"
  /\ other' = IF Len(other) > 0 THEN DropLast(other) ELSE other
  /\ UNCHANGED <<buffer, typed, committed, keysOnly, last, host>>
  /\ UNCHANGED batchVars

\* flush() and reset() both leave this.buffer = ''
OtherFlushOrReset ==
  /\ pc = "idle"
  /\ other' = <<>>
  /\ UNCHANGED <<buffer, typed, committed, keysOnly, last, host>>
  /\ UNCHANGED batchVars

\* getSpeculativeDisplay(), getBuffer() and hasPending() assign nothing
OtherRead ==
  /\ pc = "idle"
  /\ UNCHANGED <<buffer, typed, committed, keysOnly, last, other, host>>
  /\ UNCHANGED batchVars

\* keys typed into the two instances
TwoKeys == {"k", "a", " "}

\* two new instances; the trie built at module load is kept in `output`
InitTwo ==
  /\ InitIME
  /\ text = <<>>
  /\ pc = "idle"
  /\ pos = 0
  /\ phonemes = <<>>
  /\ idx = 0
  /\ output = ROOT
  /\ steps = 0

NextTwo ==
  \/ \E key \in TwoKeys : ProcessKey(key, MaxTwoKeys)
  \/ Backspace
  \/ Flush
  \/ Reset
  \/ GetSpeculativeDisplay
  \/ \E key \in TwoKeys : OtherProcessKey(key)
  \/ OtherBackspace
  \/ OtherFlushOrReset
  \/ OtherRead

SpecTwo == InitTwo /\ [][NextTwo]_vars

\* ------------------------------------------------------------------------
\* hooks.ts: useSinglishConverter, enabled and with mobileSupport
\* ------------------------------------------------------------------------

\* null in a ref that holds a key, and in one that holds a value
NoKey == "<null>"
NoValue == <<"<null>">>

\* no beforeinput event is due
NoneOwed == [key |-> NoKey, prevented |-> TRUE]

AsciiLetters ==
  {"a", "b", "c", "d", "e", "f", "g", "h", "i", "j", "k", "l", "m", "n",
   "o", "p", "q", "r", "s", "t", "u", "v", "w", "x", "y", "z",
   "A", "B", "C", "D", "E", "F", "G", "H", "I", "J", "K", "L", "M", "N",
   "O", "P", "Q", "R", "S", "T", "U", "V", "W", "X", "Y", "Z"}

\* key.length === 1 && /[a-zA-Z]/.test(key), for a key of one character
isSinglishKey(key) == key \in AsciiLetters

\* spliceAtBuffer; displayLen is pendingDisplayLenRef.current
spliceAtBuffer(currentValue, cursorPos, replacement, displayLen) ==
  LET bufStart == IF cursorPos - displayLen > 0 THEN cursorPos - displayLen
                  ELSE 0
      before == substring(currentValue, 0, bufStart)
      after == sliceFrom(currentValue, cursorPos)
  IN  [newValue |-> before \o replacement \o after,
       newCursor |-> Len(before) + Len(replacement)]

\* syncIMEDisplay() and applyIMEUpdate(s.newValue, s.newCursor) when the
\* preview of the IME's buffer has displayLen code points; the layout
\* effect moves the caret when the value changed
applyIMEUpdate(h, displayLen, s) ==
  [h EXCEPT !.pendingDisplayLenRef = displayLen,
            !.imeManagedValueRef = s.newValue,
            !.valueState = s.newValue,
            !.cursor = IF s.newValue # h.valueState THEN s.newCursor
                       ELSE h.cursor]

\* what the IME that holds buf gives to the handler of key: the result of
\* processKey(key) and getSpeculativeDisplay() after it, and what flush()
\* returns instead
IMECalls(buf, key) ==
  LET result == resolveBuffer(buf \o <<key>>)
  IN  [toCommit |-> result.toCommit,
       remaining |-> StoredBuffer(result),
       display |-> getSpeculativeDisplay(StoredBuffer(result)),
       flushed |-> getSpeculativeDisplay(buf)]

\* processKey(key), the splice of what it commits and of the new preview
\* over the old preview, and the update of the hook
FeedKey(h, key, ime) ==
  LET s == spliceAtBuffer(h.valueState, h.cursor,
                          ime.toCommit \o ime.display,
                          h.pendingDisplayLenRef)
  IN  [buffer |-> ime.remaining,
       host |-> [applyIMEUpdate(h, Len(ime.display), s)
                   EXCEPT !.applied = Append(h.applied, key)]]

\* flush(), the splice of what it returns followed by extra over the
\* preview, and the update of the hook
FlushAtCursor(h, flushed, extra) ==
  LET s == spliceAtBuffer(h.valueState, h.cursor, flushed \o extra,
                          h.pendingDisplayLenRef)
  IN  [buffer |-> <<>>,
       host |-> [applyIMEUpdate(h, 0, s)
                   EXCEPT !.applied = h.applied \o extra]]

\* the browser's own insertion of data at the caret, and onChange for it
NativeInsert(h, buf, data) ==
  LET value == substring(h.valueState, 0, h.cursor) \o <<data>>
                 \o sliceFrom(h.valueState, h.cursor)
  IN  IF h.imeManagedValueRef # NoValue /\ value = h.imeManagedValueRef
      THEN [buffer |-> buf,
            host |-> [h EXCEPT !.imeManagedValueRef = NoValue]]
      ELSE [buffer |-> <<>>,
            host |-> [h EXCEPT !.imeManagedValueRef = NoValue,
                               !.pendingDisplayLenRef = 0,
                               !.valueState = value,
                               !.cursor = h.cursor + 1,
                               !.applied = Append(h.applied, data)]]

\* onKeyDown for a key of one character, no modifier and no selection
onKeyDown(h, buf, key, ime) ==
  IF isSinglishKey(key)
  THEN FeedKey([h EXCEPT !.handledKeyRef = key,
                         !.owed = [key |-> key, prevented |-> TRUE]],
               key, ime)
  ELSE IF buf # <<>>
  THEN FlushAtCursor([h EXCEPT !.handledKeyRef = key,
                               !.owed = [key |-> key, prevented |-> TRUE]],
                     ime.flushed, <<key>>)
  ELSE [buffer |-> buf,
        host |-> [h EXCEPT !.owed = [key |-> key, prevented |-> FALSE]]]

\* onKeyDown for ArrowLeft, and the caret move that follows by default
onKeyDownArrow(h, buf, flushed) ==
  LET r == IF buf # <<>> THEN FlushAtCursor(h, flushed, <<>>)
           ELSE [buffer |-> buf, host |-> h]
  IN  [r EXCEPT !.host.cursor = IF @ > 0 THEN @ - 1 ELSE 0]

\* onBeforeInput for insertText of the one character data, no selection
onBeforeInput(h, buf, data, ime) ==
  IF h.handledKeyRef = data
  THEN [buffer |-> buf, host |-> [h EXCEPT !.handledKeyRef = NoKey]]
  ELSE IF isSinglishKey(data)
  THEN FeedKey([h EXCEPT !.handledKeyRef = NoKey], data, ime)
  ELSE IF buf # <<>>
  THEN FlushAtCursor([h EXCEPT !.handledKeyRef = NoKey], ime.flushed,
                     <<data>>)
  ELSE NativeInsert([h EXCEPT !.handledKeyRef = NoKey], buf, data)

\* onBlur
onBlur(h, buf, flushed) ==
  IF buf # <<>> THEN FlushAtCursor(h, flushed, <<>>)
  ELSE [buffer |-> buf, host |-> h]

\* keys and characters typed into the textarea
HookKeys == {"k", "a", " "}

\* the offsets of a textarea that holds one character and what the events
\* added, at most two code points each
CaretOffsets == 0..(2 * MaxHookEvents + 1)

\* the state an event handler leaves: a caret move stays outstanding until
\* the buffer is empty
HookStep(event, r, moved) ==
  /\ host.component = "hook"
  /\ host.events < MaxHookEvents
  /\ buffer' = r.buffer
  /\ host' = [r.host EXCEPT !.event = event,
                            !.events = host.events + 1,
                            !.moved = moved /\ r.buffer # <<>>]
  /\ UNCHANGED <<typed, committed, keysOnly, last, other>>
  /\ UNCHANGED batchVars

\* a keydown event of a character key
KeyDown(key) ==
  /\ host.owed.prevented
  /\ \E ime \in {IMECalls(buffer, key)} :
       \E r \in {onKeyDown([host EXCEPT !.inputs = Append(@, key)],
                           buffer, key, ime)} :
         HookStep("keydown", r, host.moved)

\* a keydown event of ArrowLeft
KeyDownArrow ==
  /\ host.owed.prevented
  /\ \E flushed \in {getSpeculativeDisplay(buffer)} :
       \E r \in {onKeyDownArrow([host EXCEPT !.owed = NoneOwed], buffer,
                                flushed)} :
         HookStep("arrow", r, host.moved)

\* the beforeinput event that belongs to the last keydown
BeforeInputOfKeyDown ==
  /\ host.owed.key # NoKey
  /\ \E ime \in {IMECalls(buffer, host.owed.key)} :
       \E r \in {onBeforeInput([host EXCEPT !.owed = NoneOwed], buffer,
                               host.owed.key, ime)} :
         HookStep("beforeinput", r, host.moved)

\* a beforeinput event with no keydown of its own: a virtual keyboard
BeforeInputAlone(data) ==
  /\ host.owed.prevented
  /\ \E ime \in {IMECalls(buffer, data)} :
       \E r \in {onBeforeInput([host EXCEPT !.owed = NoneOwed,
                                            !.inputs = Append(@, data)],
                               buffer, data, ime)} :
         HookStep("beforeinput", r, host.moved)

\* the caret is put at offset p with the mouse: no handler runs
Click(p) ==
  /\ host.owed.prevented
  /\ p <= Len(host.valueState)
  /\ p # host.cursor
  /\ \E r \in {[buffer |-> buffer,
                 host |-> [host EXCEPT !.cursor = p, !.owed = NoneOwed]]} :
       HookStep("click", r, TRUE)

\* the textarea loses the focus
Blur ==
  /\ host.owed.prevented
  /\ \E flushed \in {getSpeculativeDisplay(buffer)} :
       \E r \in {onBlur([host EXCEPT !.owed = NoneOwed], buffer, flushed)} :
         HookStep("blur", r, host.moved)

\* the hook mounted on a textarea that holds one character, caret after it
InitHook ==
  /\ buffer = <<>>
  /\ other = <<>>
  /\ typed = <<>>
  /\ committed = <<>>
  /\ keysOnly = TRUE
  /\ last = NoCall
  /\ host = [component |-> "hook", valueState |-> <<"#">>, cursor |-> 1,
             pendingDisplayLenRef |-> 0, handledKeyRef |-> NoKey,
             imeManagedValueRef |-> NoValue, owed |-> NoneOwed,
             inputs |-> <<>>, applied |-> <<>>, moved |-> FALSE,
             event |-> "mount", events |-> 0]
  /\ InitNoBatch

NextHook ==
  \/ \E key \in HookKeys : KeyDown(key)
  \/ KeyDownArrow
  \/ BeforeInputOfKeyDown
  \/ \E data \in HookKeys : BeforeInputAlone(data)
  \/ \E p \in CaretOffsets : Click(p)
  \/ Blur

SpecHook == InitHook /\ [][NextHook]_vars

\* ------------------------------------------------------------------------
\* auto-attach: createAutoAttach
\* ------------------------------------------------------------------------

\* elements that match the selector: a textarea and an input, and an input
\* that also matches the exclude selector
Elements == {"e1", "e2", "e3"}
Excluded == {"e3"}

\* shouldAttach that does not look at attachedElements
shouldAttachAgain(h, element) == element \notin Excluded

shouldAttach(h, element) ==
  IF element \in h.attachedElements THEN FALSE
  ELSE IF element \in Excluded THEN FALSE
  ELSE TRUE

\* attachToElement: a new SinglishIME for the element and one keydown and
\* one blur listener on it
attachToElement(h, element) ==
  LET g == [h EXCEPT !.calls[element] = @ + 1]
  IN  IF ~shouldAttach(h, element) THEN g
      ELSE [g EXCEPT !.imeInstances[element] = @ + 1,
                     !.attachedElements = @ \cup {element},
                     !.listeners[element] = @ + 1]

\* elements.forEach(attachToElement)
RECURSIVE attachToAll(_, _)
attachToAll(h, elements) ==
  IF elements = {} THEN h
  ELSE LET element == CHOOSE e \in elements : TRUE
       IN  attachToAll(attachToElement(h, element), elements \ {element})

\* start(): attachToExisting() and observeDOM()
start(h) ==
  IF h.isRunning THEN h
  ELSE [attachToAll([h EXCEPT !.isRunning = TRUE], h.dom)
          EXCEPT !.observer = "observer", !.connected = @ + 1]

\* stop(): observer?.disconnect(); observer = null
stop(h) ==
  IF ~h.isRunning THEN h
  ELSE [h EXCEPT !.isRunning = FALSE,
                 !.connected = IF h.observer # "null" THEN @ - 1 ELSE @,
                 !.observer = "null"]

toggle(h) == IF h.isRunning THEN stop(h) ELSE start(h)

\* the instance createAutoAttach({enabled}) returns in a document that
\* holds the elements dom
createAutoAttach(enabled, dom) ==
  LET h == [component |-> "attach", isRunning |-> FALSE, observer |-> "null",
            connected |-> 0, dom |-> dom, attachedElements |-> {},
            imeInstances |-> [e \in Elements |-> 0],
            listeners |-> [e \in Elements |-> 0],
            calls |-> [e \in Elements |-> 0],
            event |-> "create", element |-> "", intercepted |-> FALSE,
            events |-> 0]
  IN  IF enabled THEN start(h) ELSE h

\* a call or event on the instance; the IMEs of e1 and e2 are buffer and
\* other
AttachStep(event, element, h, intercepted) ==
  /\ host.component = "attach"
  /\ host.events < MaxAttachEvents
  /\ host' = [h EXCEPT !.event = event, !.element = element,
                       !.intercepted = intercepted,
                       !.events = host.events + 1]
  /\ UNCHANGED <<typed, committed, keysOnly, last>>
  /\ UNCHANGED batchVars

Start ==
  /\ \E h \in {start(host)} : AttachStep("start", "", h, FALSE)
  /\ UNCHANGED <<buffer, other>>

Stop ==
  /\ \E h \in {stop(host)} : AttachStep("stop", "", h, FALSE)
  /\ UNCHANGED <<buffer, other>>

Toggle ==
  /\ \E h \in {toggle(host)} : AttachStep("toggle", "", h, FALSE)
  /\ UNCHANGED <<buffer, other>>

\* the element is added to the document; a connected observer reports it
Mutation(element) ==
  /\ \E h \in {IF host.connected > 0
               THEN attachToElement([host EXCEPT !.dom = @ \cup {element}],
                                    element)
               ELSE [host EXCEPT !.dom = @ \cup {element}]} :
       AttachStep("mutation", element, h, FALSE)
  /\ UNCHANGED <<buffer, other>>

\* a character key pressed in the element: handleKeyDown runs when the
\* element has the listener, calls preventDefault and processKey
KeyDownIn(element, key) ==
  /\ element \in host.dom
  /\ IF host.listeners[element] = 0
     THEN /\ AttachStep("keydown", element, host, FALSE)
          /\ UNCHANGED <<buffer, other>>
     ELSE /\ AttachStep("keydown", element, host, TRUE)
          /\ IF element = "e1"
             THEN /\ buffer' = StoredBuffer(resolveBuffer(buffer \o <<key>>))
                  /\ UNCHANGED other
             ELSE /\ other' = StoredBuffer(resolveBuffer(other \o <<key>>))
                  /\ UNCHANGED buffer

\* keys pressed in the elements
AttachKeys == {"k", "a"}

InitAttach ==
  /\ buffer = <<>>
  /\ other = <<>>
  /\ typed = <<>>
  /\ committed = <<>>
  /\ keysOnly = TRUE
  /\ last = NoCall
  /\ \E enabled \in BOOLEAN : \E dom \in SUBSET Elements :
       host = createAutoAttach(enabled, dom)
  /\ InitNoBatch

NextAttach ==
  \/ Start
  \/ Stop
  \/ Toggle
  \/ \E element \in Elements : Mutation(element)
  \/ \E element \in Elements : \E key \in AttachKeys :
       KeyDownIn(element, key)

SpecAttach == InitAttach /\ [][NextAttach]_vars

\* ------------------------------------------------------------------------
\* ui-toggle.ts: createUIToggle
\* ------------------------------------------------------------------------

\* what localStorage.getItem gives for a key that was never set
NoItem == "null"

\* String(value) of a boolean
String(value) == IF value THEN "true" ELSE "false"

\* loadState(): true without localStorage or without a stored item
loadState(h) ==
  IF ~h.hasStorage THEN TRUE
  ELSE IF h.stored = NoItem THEN TRUE ELSE h.stored = "true"

\* saveState(value)
saveState(h, value) ==
  IF ~h.hasStorage THEN h ELSE [h EXCEPT !.stored = String(value)]

\* handleToggle(): the click and the Enter/space key of the button
handleToggle(h) ==
  LET g == saveState([h EXCEPT !.enabled = ~h.enabled], ~h.enabled)
  IN  [g EXCEPT !.onToggle = Append(@, g.enabled), !.changed = TRUE,
                !.clicks = @ + 1]

\* setEnabled that does not call saveState
setEnabledUnsaved(h, value) ==
  IF h.enabled = value THEN h
  ELSE [h EXCEPT !.enabled = value, !.changed = TRUE]

\* setEnabled(value)
setEnabled(h, value) ==
  IF h.enabled = value THEN h
  ELSE [saveState([h EXCEPT !.enabled = value], value)
          EXCEPT !.changed = TRUE]

getEnabled(h) == h.enabled

\* createUIToggle() after the toggle h: let enabled = loadState()
createUIToggle(h) ==
  [h EXCEPT !.enabled = loadState(h), !.previous = h.enabled,
            !.changed = FALSE]

\* a call or event on the toggle
ToggleStep(event, h) ==
  /\ host.events < MaxToggleEvents
  /\ host' = [h EXCEPT !.event = event, !.events = host.events + 1]
  /\ UNCHANGED <<buffer, typed, committed, keysOnly, last, other>>
  /\ UNCHANGED batchVars

ClickToggle ==
  /\ host.component = "toggle"
  /\ ToggleStep("click", handleToggle(host))

SetEnabled(value) ==
  /\ host.component = "toggle"
  /\ ToggleStep("setEnabled", setEnabled(host, value))

\* another toggle is created and takes the place of the current one
CreateUIToggle ==
  /\ host.component = "toggle"
  /\ ToggleStep("create", createUIToggle(host))

\* the first toggle of a page, with or without localStorage, and with
\* whatever an earlier visit stored
InitToggle ==
  /\ buffer = <<>>
  /\ other = <<>>
  /\ typed = <<>>
  /\ committed = <<>>
  /\ keysOnly = TRUE
  /\ last = NoCall
  /\ \E hasStorage \in BOOLEAN : \E stored \in {NoItem, "true", "false"} :
       /\ hasStorage \/ stored = NoItem
       /\ \E h \in {[component |-> "toggle", hasStorage |-> hasStorage,
                    stored |-> stored, enabled |-> TRUE, previous |-> TRUE,
                    changed |-> FALSE, onToggle |-> <<>>, clicks |-> 0,
                    event |-> "first", events |-> 0]} :
            host = [createUIToggle(h) EXCEPT !.previous = loadState(h)]
  /\ InitNoBatch

NextToggle ==
  \/ ClickToggle
  \/ \E value \in BOOLEAN : SetEnabled(value)
  \/ CreateUIToggle

SpecToggle == InitToggle /\ [][NextToggle]_vars

\* the IME typed with keys that all occur in the pattern list or the table
MappedKeys == Keys \ {"K"}

NextMapped ==
  \/ \E key \in MappedKeys : ProcessKey(key, MaxKeys)
  \/ Backspace
  \/ Flush
  \/ Reset
  \/ GetSpeculativeDisplay

SpecMapped == Init /\ [][NextMapped]_vars

\* ------------------------------------------------------------------------
\* Properties
\* ------------------------------------------------------------------------

Range(s) == {s[i] : i \in DOMAIN s}

IsPrefix(p, s) == Len(p) <= Len(s) /\ SubSeq(s, 1, Len(p)) = p

\* number of occurrences of c in s
Count(c, s) == Cardinality({i \in DOMAIN s : s[i] = c})

\* the buffer a call of processKey resolved
Resolved == last.before \o <<last.key>>

\* the number of characters of it that the call consumed
Consumed == Len(Resolved) - Len(last.remaining)

\* the buffer of a new SinglishIME after processKey of each key in turn
RECURSIVE FedFrom(_, _, _)
FedFrom(buf, keys, i) ==
  IF i > Len(keys) THEN buf
  ELSE FedFrom(resolveBuffer(buf \o <<keys[i]>>).remaining, keys, i + 1)

FedBuffer(keys) == FedFrom(<<>>, keys, 1)

\* the offsets at which the batch tokenizer starts or ends a token
RECURSIVE BoundariesFrom(_, _)
BoundariesFrom(txt, i) ==
  IF i < Len(txt)
  THEN {i} \cup BoundariesFrom(txt, i + TokenizerStep(txt, i).length)
  ELSE {i}

TokenBoundaries(txt) == BoundariesFrom(txt, 0)

\* the characters that occur in some pattern of the table
PatternChars ==
  UNION {Range(SINGLISH_TO_PHONEME[k][1]) : k \in DOMAIN SINGLISH_TO_PHONEME}

\* the preserved characters of the table: whitespace, punctuation, digits
PreservedChars ==
  {SINGLISH_TO_PHONEME[k][2] :
     k \in {j \in DOMAIN SINGLISH_TO_PHONEME :
              SINGLISH_TO_PHONEME[j][1] = <<SINGLISH_TO_PHONEME[j][2]>>}}

\* punctuation, digits and whitespace: the preserved characters of the
\* table and some characters the table does not hold
NonPhonetic == PreservedChars \cup {"#", "@", "*", "\r"}

\* the batch converter on every text of punctuation, digits and whitespace
InitPreserved ==
  /\ InitIME
  /\ text \in Texts(NonPhonetic, MaxPreserved)
  /\ pc = "start"
  /\ pos = 0
  /\ phonemes = <<>>
  /\ idx = 0
  /\ output = <<>>
  /\ steps = 0

SpecPreserved == InitPreserved /\ [][NextBatch]_vars

\* the keys that are a pattern of a regular consonant
IsConsonantKey(c) ==
  /\ FirstMatch(<<c>>, 0) # 0
  /\ isConsonant(SINGLISH_TO_PHONEME[FirstMatch(<<c>>, 0)][2])

\* the longest pattern of the IME's list
MaxPatternLen ==
  CHOOSE n \in {Len(SINGLISH_PATTERNS[k]) : k \in DOMAIN SINGLISH_PATTERNS} :
    \A k \in DOMAIN SINGLISH_PATTERNS : Len(SINGLISH_PATTERNS[k]) <= n

\* a generous reading of "the longest still-ambiguous tail": two patterns
PendingBound == 2 * MaxPatternLen

\* C1 (prefix-consistency): after processKey of each character of s on a new
\* IME and then flush(), the outputs concatenated are the batch conversion
\* of s.
C1_PrefixConsistency ==
  (keysOnly /\ last.op = "flush")
    => committed = convertSinglishToSinhala(typed)

\* C2 (commit stability): a non-empty toCommit returned by processKey is a
\* prefix of the batch conversion of the resolved buffer followed by any
\* later keystrokes t.
C2_CommitStability ==
  (last.op = "processKey" /\ last.toCommit # <<>>)
    => \A t \in Texts(MappedKeys, MaxLater) :
         IsPrefix(last.toCommit, convertSinglishToSinhala(Resolved \o t))

\* C3 (conjunct typed key by key): after a regular consonant, then 'r' or
\* 'y', then 'a' from an empty buffer, the toCommit values concatenated are
\* the batch conversion of the three letters and nothing is pending.
C3_ConjunctTyped ==
  (/\ keysOnly
   /\ last.op = "processKey"
   /\ Len(typed) = 3
   /\ IsConsonantKey(typed[1])
   /\ typed[2] \in {"r", "y"}
   /\ typed[3] = "a")
    => (committed = convertSinglishToSinhala(typed) /\ buffer = <<>>)

\* C4 (passthrough): a character that occurs in no pattern of the table
\* appears in the output of convertSinglishToSinhala exactly as often as in
\* the input: it is copied, never rendered as something else.
C4_Passthrough ==
  pc = "done"
    => \A c \in Range(text) \ PatternChars :
         Count(c, output) = Count(c, text)

\* C5 (bounded pending buffer): after any sequence of processKey calls the
\* pending buffer is no longer than a small constant.
C5_BoundedPending == Len(buffer) <= PendingBound

\* C6 (preserved characters are never held back): after processKey(c) with
\* c whitespace, punctuation or a digit, c has been committed and is not in
\* the pending buffer.
C6_NeverHeldBack ==
  (last.op = "processKey" /\ last.key \in PreservedChars)
    => /\ last.toCommit # <<>>
       /\ last.toCommit[Len(last.toCommit)] = last.key
       /\ last.key \notin Range(buffer)

\* C7 (backspace correctness): backspace() on a pending buffer B and then
\* getSpeculativeDisplay() shows what a new IME shows after B without its
\* last character has been fed to it key by key.
C7_BackspacePreview ==
  (last.op = "getSpeculativeDisplay" /\ last.prevOp = "backspace" /\ last.ok)
    => last.toCommit
         = getSpeculativeDisplay(
             FedBuffer(SubSeq(last.prevBefore, 1, Len(last.prevBefore) - 1)))

\* a preview after a backspace that left at least two characters pending
C7_Witness ==
  /\ last.op = "getSpeculativeDisplay"
  /\ last.prevOp = "backspace"
  /\ last.ok
  /\ Len(last.prevBefore) >= 3
  /\ Len(last.toCommit) >= 2

\* C8 (commits are batch conversions): a non-empty toCommit returned by
\* processKey is convertSinglishToSinhala of exactly the consumed prefix.
C8_CommitIsBatch ==
  (last.op = "processKey" /\ last.toCommit # <<>>)
    => last.toCommit
         = convertSinglishToSinhala(SubSeq(Resolved, 1, Consumed))

\* C9 (single split): processKey splits the resolved buffer b at one offset
\* k: toCommit renders b[..k] (converted, or as it is) and remaining is
\* b[k..], so no character is dropped, duplicated or reordered; k is a token
\* boundary of the batch tokenization of b, toCommit is empty exactly when
\* k = 0, and the instance buffer is the returned remaining.
C9_SingleSplit ==
  last.op = "processKey"
    => /\ Consumed \in 0..Len(Resolved)
       /\ last.remaining = SubSeq(Resolved, Consumed + 1, Len(Resolved))
       /\ last.toCommit \in {convertSinglishToSinhala(SubSeq(Resolved, 1, Consumed)),
                             SubSeq(Resolved, 1, Consumed)}
       /\ Consumed \in TokenBoundaries(Resolved)
       /\ (last.toCommit = <<>>) <=> (Consumed = 0)
       /\ buffer = last.remaining

\* a processKey that committed a part of the buffer and kept the rest
C9_Witness ==
  /\ last.op = "processKey"
  /\ Consumed > 0
  /\ Consumed < Len(Resolved)
  /\ last.toCommit # <<>>
  /\ buffer = last.remaining

\* raw characters the tokenizer pushes as tokens: the ones that are also
\* the name of a consonant phoneme, and one that is not
RawTokens == {"K", "G", "J", "P", "M", "Y", "F", "#"}

\* every token the tokenizer can push
TokenAlphabet ==
  {SINGLISH_TO_PHONEME[k][2] : k \in DOMAIN SINGLISH_TO_PHONEME}
    \cup RawTokens

\* the token sequences that differ in what one renderer iteration reads:
\* the current token, the next one, and the one after a conjunct-forming one
Lookaheads ==
  {<<c>> : c \in TokenAlphabet}
    \cup {<<c, n>> : c \in TokenAlphabet, n \in TokenAlphabet}
    \cup {<<c, n, a>> : c \in TokenAlphabet, n \in {"Y", "R_CONS"},
                        a \in TokenAlphabet}

\* no pattern of the table is empty
PatternsNonEmpty ==
  \A k \in DOMAIN SINGLISH_TO_PHONEME : Len(SINGLISH_TO_PHONEME[k][1]) >= 1

\* one renderer iteration advances by at least one token, not past the end
RendererAdvances ==
  \A ph \in Lookaheads : RenderStep(ph, 0).advance \in 1..Len(ph)

\* C10 (totality): every tokenizer iteration advances the position by at
\* least one character (no pattern is empty) and every renderer iteration
\* advances the index by at least one token and not past the end, for every
\* token and lookahead the tokenizer can produce; so the number of
\* iterations is bounded by the input length and convertSinglishToSinhala
\* ends with a string.
C10_Totality ==
  /\ PatternsNonEmpty
  /\ RendererAdvances
  /\ (pc = "tokenize" /\ pos < Len(text))
       => TokenizerStep(text, pos).length >= 1
  /\ (pc = "render" /\ idx < Len(phonemes))
       => RenderStep(phonemes, idx).advance >= 1
  /\ pos <= Len(text)
  /\ idx <= Len(phonemes)
  /\ Len(phonemes) <= Len(text)
  /\ steps <= 2 * Len(text)
  /\ pc \in {"start", "tokenize", "render", "done"}

\* a conversion that ended after a renderer iteration consumed three tokens
C10_Witness ==
  /\ pc = "done"
  /\ Len(phonemes) = 3
  /\ steps = 4
  /\ Len(output) >= 4

\* ------------------------------------------------------------------------
\* Claims about the batch tokenizer and renderer
\* ------------------------------------------------------------------------

\* the entries of the table whose pattern is at txt[i..]
MatchingAt(txt, i) ==
  {SINGLISH_TO_PHONEME[k] : k \in
     {j \in DOMAIN SINGLISH_TO_PHONEME :
        substring(txt, i, i + Len(SINGLISH_TO_PHONEME[j][1]))
          = SINGLISH_TO_PHONEME[j][1]}}

\* a longest entry of a non-empty set of table entries
Longest(M) == CHOOSE e \in M : \A f \in M : Len(f[1]) <= Len(e[1])

\* the tokens of txt from position i when the longest matching pattern is
\* taken at every position and a character matching none stands for itself
RECURSIVE LongestTokensFrom(_, _)
LongestTokensFrom(txt, i) ==
  IF i >= Len(txt) THEN <<>>
  ELSE LET M == MatchingAt(txt, i)
       IN  IF M = {}
           THEN <<txt[i + 1]>> \o LongestTokensFrom(txt, i + 1)
           ELSE <<Longest(M)[2]>>
                  \o LongestTokensFrom(txt, i + Len(Longest(M)[1]))

\* the table is in non-increasing order of pattern length
TableLongestFirst ==
  \A j, k \in DOMAIN SINGLISH_TO_PHONEME :
    j < k => Len(SINGLISH_TO_PHONEME[j][1]) >= Len(SINGLISH_TO_PHONEME[k][1])

\* no pattern is in the table twice
TablePatternsDistinct ==
  \A j, k \in DOMAIN SINGLISH_TO_PHONEME :
    j # k => SINGLISH_TO_PHONEME[j][1] # SINGLISH_TO_PHONEME[k][1]

\* every pattern of the table, alone and followed by any one character of
\* the table, is tokenized from its start by its longest match
LongestOnPatterns ==
  \A k \in DOMAIN SINGLISH_TO_PHONEME :
    \A tail \in {<<>>} \cup {<<c>> : c \in PatternChars} :
      LET txt == SINGLISH_TO_PHONEME[k][1] \o tail
          s == TokenizerStep(txt, 0)
          e == Longest(MatchingAt(txt, 0))
      IN  s.length = Len(e[1]) /\ s.phoneme = e[2]

\* C11 (functional correctness): at every input position the tokenizer
\* consumes the longest pattern of the table that matches there, and only
\* when no pattern matches does it emit the single character itself; the
\* table is in non-increasing length order with distinct patterns, so the
\* first match taken is the longest one, and the tokens returned are the
\* longest-match tokens of the text.
C11_LongestMatch ==
  /\ TableLongestFirst
  /\ TablePatternsDistinct
  /\ LongestOnPatterns
  /\ (pc = "tokenize" /\ pos < Len(text)) =>
       LET s == TokenizerStep(text, pos)
           M == MatchingAt(text, pos)
       IN  IF M = {}
           THEN s.length = 1 /\ s.phoneme = text[pos + 1]
           ELSE /\ \A e \in M : Len(e[1]) <= s.length
                /\ \E e \in M : Len(e[1]) = s.length /\ e[2] = s.phoneme
  /\ pc \in {"render", "done"} => phonemes = LongestTokensFrom(text, 0)

\* "aa" tokenized as one long-vowel token, before an unmatched character
C11_Witness ==
  /\ pc = "done"
  /\ text = <<"a", "a", "#">>
  /\ phonemes = <<"V_AA", "#">>

\* a token, or nothing, after the tokens the rule under test reads
NextTokens == {<<>>} \cup {<<t>> : t \in TokenAlphabet}

\* the glyph of the consonant n, of the consonant g, and the single glyphs
\* of the nasalized g and of the velar nasal
NGlyph == "U+0DB1"
GGlyph == "U+0D9C"
NasalGlyphs == {"U+0D9F", "U+0D9E"}

\* what one renderer iteration at an "ng" token does, given what follows
NGRule(s, next) ==
  /\ Len(s.out) >= 3
  /\ SubSeq(s.out, 1, 3) = <<NGlyph, HAL, GGlyph>>
  /\ Range(s.out) \cap NasalGlyphs = {}
  /\ (next = UNDEFINED \/ next \in CONSONANT_SET)
       => s.out = <<NGlyph, HAL, GGlyph, HAL>> /\ s.advance = 1
  /\ next = "V_A" => s.out = <<NGlyph, HAL, GGlyph>> /\ s.advance = 2
  /\ next \in DOMAIN VOWEL_MODIFIER
       => /\ s.out = <<NGlyph, HAL, GGlyph, VOWEL_MODIFIER[next]>>
          /\ s.advance = 2

\* the rule holds for the "ng" token before every token and before nothing
NGEveryContext ==
  \A after \in NextTokens :
    NGRule(RenderStep(<<N_G_TOKEN>> \o after, 0), At(after, 0))

\* the number of places of txt where the digraph "ng" stands
Digraphs(txt) ==
  Cardinality({i \in 1..(Len(txt) - 1) : txt[i] = "n" /\ txt[i + 1] = "g"})

\* C12 (functional correctness): the "ng" digraph is one token, and in
\* every context it renders as the n glyph with virama followed by the g
\* glyph, never as a single nasal glyph: the g takes a virama when nothing
\* or a consonant follows, is bare when 'a' follows (consumed), and carries
\* the vowel's sign when an attachable vowel follows (consumed).
C12_NGDigraph ==
  /\ NGEveryContext
  /\ pc \in {"render", "done"} => Count(N_G_TOKEN, phonemes) = Digraphs(text)
  /\ (pc = "render" /\ idx < Len(phonemes) /\ At(phonemes, idx) = N_G_TOKEN)
       => NGRule(RenderStep(phonemes, idx), At(phonemes, idx + 1))

\* "ngi" rendered: n, virama, g and the sign of i
C12_Witness ==
  /\ pc = "done"
  /\ text = <<"n", "g", "i">>
  /\ output = <<"U+0DB1", "U+0DCA", "U+0D9C", "U+0DD2">>

\* the tokens of the conjunct-forming consonants r and y
ConjunctFormers == {"R_CONS", "Y"}

\* r followed by short or long u: the composed sign, not the conjunct form
IsComposedRu(J, v) == J = "R_CONS" /\ v \in {"V_U", "V_UU"}

\* what one renderer iteration does at consonant C followed by the
\* conjunct-forming J and the vowel v
ConjunctRule(s, C, J, v) ==
  /\ v = "V_A"
       => /\ s.out = <<CONSONANT_MAP[C], HAL, ZWJ, CONSONANT_MAP[J]>>
          /\ s.advance = 3
  /\ (v \in DOMAIN VOWEL_MODIFIER /\ ~IsComposedRu(J, v))
       => /\ s.out = <<CONSONANT_MAP[C], HAL, ZWJ, CONSONANT_MAP[J],
                       VOWEL_MODIFIER[v]>>
          /\ s.advance = 3

\* the rule holds for every regular consonant, both conjunct-forming
\* consonants and every vowel that is 'a' or attachable, and the three
\* tokens converted alone give exactly that output
ConjunctEveryConsonant ==
  \A C \in CONSONANT_SET : \A J \in ConjunctFormers :
    \A v \in {"V_A"} \cup DOMAIN VOWEL_MODIFIER :
      /\ ConjunctRule(RenderStep(<<C, J, v>>, 0), C, J, v)
      /\ ~IsComposedRu(J, v)
           => phonemesToSinhala(<<C, J, v>>) = RenderStep(<<C, J, v>>, 0).out

\* C13 (functional correctness): a regular consonant C followed by r or y
\* and then 'a' renders as C, virama, zero-width joiner, J, with no vowel
\* sign and no trailing virama, consuming all three tokens; with an
\* attachable vowel in place of 'a' (other than u/uu after r) the same
\* output is followed by that vowel's sign.
C13_ConjunctForm ==
  /\ ConjunctEveryConsonant
  /\ (/\ pc = "render"
      /\ idx + 2 < Len(phonemes)
      /\ At(phonemes, idx) \in CONSONANT_SET
      /\ At(phonemes, idx + 1) \in ConjunctFormers)
       => ConjunctRule(RenderStep(phonemes, idx), At(phonemes, idx),
                       At(phonemes, idx + 1), At(phonemes, idx + 2))

\* "kra" rendered: k, virama, joiner, r
C13_Witness ==
  /\ pc = "done"
  /\ text = <<"k", "r", "a">>
  /\ phonemes = <<"K", "R_CONS", "V_A">>
  /\ output = <<"U+0D9A", "U+0DCA", "U+200D", "U+0DBB">>

\* C14 (refinement): after a conjunct C + J has been rendered, whatever
\* token follows (or the end of input) is handled as after a plain regular
\* consonant: the part of the output after the conjunct consonant J, and
\* the number of tokens consumed after C, are what the no-cluster rule
\* gives for the plain consonant J followed by that token.
C14_ConjunctTail ==
  (/\ pc = "render"
   /\ idx + 1 < Len(phonemes)
   /\ At(phonemes, idx) \in CONSONANT_SET
   /\ At(phonemes, idx + 1) \in ConjunctFormers
   /\ ~IsComposedRu(At(phonemes, idx + 1), At(phonemes, idx + 2)))
    => LET s == RenderStep(phonemes, idx)
           plain == RenderPlain(At(phonemes, idx + 1), At(phonemes, idx + 2))
       IN  /\ SubSeq(s.out, 1, 4)
                = <<CONSONANT_MAP[At(phonemes, idx)], HAL, ZWJ,
                    CONSONANT_MAP[At(phonemes, idx + 1)]>>
           /\ SubSeq(s.out, 5, Len(s.out)) = Tail(plain.out)
           /\ s.advance = 1 + plain.advance

\* what one renderer iteration does at a regular consonant C followed by
\* a token that forms no conjunct with it (UNDEFINED at the end of input)
PlainRule(s, C, next) ==
  /\ next \in DOMAIN VOWEL_MODIFIER
       => s.out = <<CONSONANT_MAP[C], VOWEL_MODIFIER[next]>> /\ s.advance = 2
  /\ next = "V_A" => s.out = <<CONSONANT_MAP[C]>> /\ s.advance = 2
  /\ (next \in CONSONANT_SET \cup SANYAKA_SET \/ next = UNDEFINED)
       => s.out = <<CONSONANT_MAP[C], HAL>> /\ s.advance = 1
  /\ next \in DOMAIN SPECIAL_MAP
       => s.out = <<CONSONANT_MAP[C]>> /\ s.advance = 1

\* the rule holds for every regular consonant before every token that is
\* not conjunct-forming and before nothing, and a Special token after the
\* consonant is rendered next as it is alone
PlainEveryConsonant ==
  \A C \in CONSONANT_SET :
    /\ \A after \in NextTokens :
         At(after, 0) \notin ConjunctFormers
           => PlainRule(RenderStep(<<C>> \o after, 0), C, At(after, 0))
    /\ \A sp \in DOMAIN SPECIAL_MAP :
         phonemesToSinhala(<<C, sp>>)
           = <<CONSONANT_MAP[C]>> \o phonemesToSinhala(<<sp>>)

\* C15 (functional correctness): a regular consonant not followed by r or
\* y renders glyph + sign before an attachable vowel and the bare glyph
\* before 'a' (two tokens consumed), glyph + virama before another
\* consonant, a nasalized consonant or the end of input (one token
\* consumed), and the bare glyph before a Special token, which is then
\* rendered independently.
C15_PlainConsonant ==
  /\ PlainEveryConsonant
  /\ (/\ pc = "render"
      /\ idx < Len(phonemes)
      /\ At(phonemes, idx) \in CONSONANT_SET
      /\ At(phonemes, idx + 1) \notin ConjunctFormers)
       => PlainRule(RenderStep(phonemes, idx), At(phonemes, idx),
                    At(phonemes, idx + 1))

\* "kxk" rendered: bare k, the anusvara, then k with virama at the end
C15_Witness ==
  /\ pc = "done"
  /\ text = <<"k", "x", "k">>
  /\ phonemes = <<"K", "ANUSVARA", "K">>
  /\ output = <<"U+0D9A", "U+0D82", "U+0D9A", "U+0DCA">>

\* the composed signs of r + short u and of r + long u
ComposedRuSign == [V_U |-> "U+0DD8", V_UU |-> "U+0DF2"]

\* what one renderer iteration does at consonant C, r and short or long u
ComposedRuRule(s, C, v) ==
  /\ s.out = <<CONSONANT_MAP[C], ComposedRuSign[v]>>
  /\ s.advance = 3
  /\ Range(s.out) \cap {HAL, ZWJ} = {}
  /\ (C # "R_CONS") => CONSONANT_MAP["R_CONS"] \notin Range(s.out)

\* the surface patterns of short u and of long u, with their tokens
UPatterns ==
  {e \in Range(SINGLISH_TO_PHONEME) : e[2] \in DOMAIN ComposedRuSign}

\* the rule holds for every regular consonant, and the three tokens
\* converted alone give exactly the consonant and the composed sign
ComposedRuEveryConsonant ==
  /\ \A C \in CONSONANT_SET : \A v \in DOMAIN ComposedRuSign :
       /\ ComposedRuRule(RenderStep(<<C, "R_CONS", v>>, 0), C, v)
       /\ phonemesToSinhala(<<C, "R_CONS", v>>)
            = <<CONSONANT_MAP[C], ComposedRuSign[v]>>
  /\ \A e \in UPatterns :
       convertSinglishToSinhala(<<"k", "r">> \o e[1])
         = <<CONSONANT_MAP["K"], ComposedRuSign[e[2]]>>
  /\ {e[1] : e \in UPatterns} = {<<"u">>, <<"u", "u">>, <<"U">>}

\* C16 (functional correctness): a regular consonant C followed by r and
\* short u renders as C and the composed sign U+0DD8, followed by r and
\* long u (uu or U) as C and U+0DF2, consuming all three tokens, with no
\* virama, joiner or separate r glyph.
C16_ComposedRu ==
  /\ ComposedRuEveryConsonant
  /\ (/\ pc = "render"
      /\ idx + 2 < Len(phonemes)
      /\ At(phonemes, idx) \in CONSONANT_SET
      /\ At(phonemes, idx + 1) = "R_CONS"
      /\ At(phonemes, idx + 2) \in DOMAIN ComposedRuSign)
       => ComposedRuRule(RenderStep(phonemes, idx), At(phonemes, idx),
                         At(phonemes, idx + 2))

\* "krU" rendered: k and the composed sign of r + long u
C16_Witness ==
  /\ pc = "done"
  /\ text = <<"k", "r", "U">>
  /\ phonemes = <<"K", "R_CONS", "V_UU">>
  /\ output = <<"U+0D9A", "U+0DF2">>

\* what one renderer iteration does at a nasalized consonant S that
\* consults the following token (UNDEFINED at the end of input)
SanyakaRule(s, S, next) ==
  /\ next \in DOMAIN VOWEL_MODIFIER
       => s.out = <<SANYAKA_MAP[S], VOWEL_MODIFIER[next]>> /\ s.advance = 2
  /\ next = "V_A" => s.out = <<SANYAKA_MAP[S]>> /\ s.advance = 2
  /\ (next \in CONSONANT_SET \cup SANYAKA_SET \/ next = UNDEFINED)
       => s.out = <<SANYAKA_MAP[S], HAL>> /\ s.advance = 1

\* the nasalized consonants whose surface patterns all end in 'a'
SanyakaWithA ==
  {S \in SANYAKA_SET :
     \A e \in Range(SINGLISH_TO_PHONEME) :
       e[2] = S => e[1][Len(e[1])] = "a"}

\* C17 as claimed (functional correctness): every nasalized-consonant
\* token except SANYAKA_BA consults the following token: glyph + sign
\* before an attachable vowel, bare glyph before 'a', glyph + virama before
\* another consonant or nothing.
C17_AllButOneConsult ==
  (/\ pc = "render"
   /\ idx < Len(phonemes)
   /\ At(phonemes, idx) \in SANYAKA_SET \ {"SANYAKA_BA"})
    => SanyakaRule(RenderStep(phonemes, idx), At(phonemes, idx),
                   At(phonemes, idx + 1))

\* SANYAKA_B follows the rule before every token and before nothing; a
\* token whose patterns end in 'a' renders bare and consumes itself only
SanyakaEveryContext ==
  /\ SanyakaWithA = SANYAKA_SET \ {"SANYAKA_B"}
  /\ \A after \in NextTokens :
       /\ SanyakaRule(RenderStep(<<"SANYAKA_B">> \o after, 0), "SANYAKA_B",
                      At(after, 0))
       /\ \A S \in SanyakaWithA :
            RenderStep(<<S>> \o after, 0)
              = [out |-> <<SANYAKA_MAP[S]>>, advance |-> 1]

\* C17 as amended (functional correctness): only the nasalized consonant
\* whose surface pattern holds no vowel (SANYAKA_B, typed B) consults the
\* following token: glyph + sign before an attachable vowel, bare glyph
\* before 'a', glyph + virama before another consonant or nothing; every
\* other nasalized consonant (patterns Ba, zga, zja, zda, zdha, zqa, zka,
\* zha, all ending in 'a') renders its bare glyph and consumes one token,
\* whatever follows.
C17_OnlyBConsults ==
  /\ SanyakaEveryContext
  /\ (pc = "render" /\ idx < Len(phonemes)
        /\ At(phonemes, idx) = "SANYAKA_B")
       => SanyakaRule(RenderStep(phonemes, idx), "SANYAKA_B",
                      At(phonemes, idx + 1))
  /\ (pc = "render" /\ idx < Len(phonemes)
        /\ At(phonemes, idx) \in SanyakaWithA)
       => RenderStep(phonemes, idx)
            = [out |-> <<SANYAKA_MAP[At(phonemes, idx)]>>, advance |-> 1]

\* "zgaBi" rendered: the nasalized g bare before the nasalized b, which
\* takes the sign of i
C17_Witness ==
  /\ pc = "done"
  /\ text = <<"z", "g", "a", "B", "i">>
  /\ phonemes = <<"SANYAKA_GA", "SANYAKA_B", "V_I">>
  /\ output = <<"U+0D9F", "U+0DB9", "U+0DD2">>

\* ------------------------------------------------------------------------
\* Claims about resolveBuffer's tokenization and about flush and reset
\* ------------------------------------------------------------------------

\* the number of characters the tokens of a scan cover
Covered(tokens) ==
  IF tokens = <<>> THEN 0
  ELSE tokens[Len(tokens)].start + tokens[Len(tokens)].length

\* C18 (safety): when resolveBuffer's tokenizing loop stops before the end
\* of the buffer, the whole untokenized remainder is a viable prefix of
\* some registered pattern; otherwise every unmatched character became a
\* one-character Passthrough token and the tokens reach the end of the
\* buffer.
C18_ViableRemainder ==
  last.op = "processKey" =>
    LET scan == ScanTokens(Resolved, 0, <<>>)
    IN  IF scan.trailingPrefixStart >= 0
        THEN /\ Covered(scan.tokens) = scan.trailingPrefixStart
             /\ isTriePrefix(sliceFrom(Resolved, scan.trailingPrefixStart))
        ELSE Covered(scan.tokens) = Len(Resolved)

\* the characters a registered pattern begins with
PatternStarts == {SINGLISH_PATTERNS[k][1] : k \in DOMAIN SINGLISH_PATTERNS}

\* every preserved or unmatched character that begins no pattern, alone in
\* the buffer, is committed verbatim with nothing remaining
LoneCharsCommitted ==
  \A c \in (PreservedChars \cup RawTokens) \ PatternStarts :
    /\ ScanTokens(<<c>>, 0, <<>>)
         = [tokens |-> <<[start |-> 0, length |-> 1, pattern |-> <<c>>,
                          isPassthrough |-> TRUE]>>,
            trailingPrefixStart |-> -1]
    /\ resolveBuffer(<<c>>) = [toCommit |-> <<c>>, remaining |-> <<>>]

\* C19 (functional correctness): when the buffer tokenizes to exactly one
\* Passthrough token, a single character that begins no registered
\* pattern, resolveBuffer commits it at once: toCommit is that character
\* verbatim and remaining is empty.
C19_LonePassthrough ==
  /\ LoneCharsCommitted
  /\ (/\ last.op = "processKey"
      /\ \/ Len(Resolved) = 1 /\ Resolved[1] \notin PatternStarts
         \/ LET scan == ScanTokens(Resolved, 0, <<>>)
            IN  /\ scan.trailingPrefixStart = -1
                /\ Len(scan.tokens) = 1
                /\ scan.tokens[1].isPassthrough)
       => /\ Len(Resolved) = 1
          /\ last.toCommit = Resolved
          /\ last.remaining = <<>>
          /\ buffer = <<>>

\* a space typed into an empty buffer and committed as it is
C19_Witness ==
  /\ last.op = "processKey"
  /\ last.before = <<>>
  /\ last.key = " "
  /\ last.toCommit = <<" ">>
  /\ buffer = <<>>

\* getBuffer() and hasPending() of the IME in the current state
getBuffer == buffer

hasPending == Len(buffer) > 0

\* nothing is pending
Cleared == ~hasPending /\ getBuffer = <<>>

\* C20 (temporal): flush() returns the batch conversion of the entire
\* pending buffer, '' when it is empty, and leaves the buffer empty;
\* reset() empties the buffer and returns nothing; after either call
\* hasPending() is false and getBuffer() is '' and they stay so under
\* every call other than processKey.
C20_FlushReset ==
  /\ [](last.op = "flush"
          => /\ last.toCommit = IF last.before = <<>> THEN <<>>
                                ELSE convertSinglishToSinhala(last.before)
             /\ Cleared)
  /\ [](last.op = "reset" => last.toCommit = <<>> /\ Cleared)
  /\ [][(Cleared /\ last'.op # "processKey") => Cleared']_vars

\* a flush of the pending "ka", which returned the glyph of k
C20_Witness ==
  /\ last.op = "flush"
  /\ last.before = <<"k", "a">>
  /\ last.toCommit = <<"U+0D9A">>
  /\ ~hasPending

\* ------------------------------------------------------------------------
\* Claims about the other calls of SinglishIME and the helpers of converter.ts
\* ------------------------------------------------------------------------

\* C21 (frame effect): backspace() on a non-empty buffer removes exactly
\* the last character of the buffer, returns true and commits nothing; on
\* an empty buffer it returns false and leaves the buffer empty.
C21_Backspace ==
  last.op = "backspace" =>
    /\ last.toCommit = <<>>
    /\ IF last.before # <<>>
       THEN /\ last.ok
            /\ buffer \o <<last.before[Len(last.before)]>> = last.before
       ELSE ~last.ok /\ buffer = <<>>

\* a backspace that removed the a of the pending "ka"
C21_Witness ==
  /\ last.op = "backspace"
  /\ last.ok
  /\ last.before = <<"k", "a">>
  /\ buffer = <<"k">>

\* the calls that only read the IME
Queries == {"getSpeculativeDisplay", "getBuffer", "hasPending"}

\* C22 (frame effect): getSpeculativeDisplay() returns the batch conversion
\* of the whole pending buffer, '' when it is empty, and no call of
\* getSpeculativeDisplay(), getBuffer() or hasPending() changes the buffer,
\* in every state and however often they are called.
C22_ReadOnly ==
  /\ [](last.op = "getSpeculativeDisplay"
          => last.toCommit = IF buffer = <<>> THEN <<>>
                             ELSE convertSinglishToSinhala(buffer))
  /\ [](last.op = "getBuffer" => last.toCommit = buffer)
  /\ [](last.op = "hasPending" => last.ok = (buffer # <<>>))
  /\ [][last'.op \in Queries => buffer' = buffer]_vars

\* "ka" pending and displayed after getBuffer() and hasPending() read it
C22_Witness ==
  /\ last.op = "getSpeculativeDisplay"
  /\ last.prevOp \in {"getBuffer", "hasPending"}
  /\ buffer = <<"k", "a">>
  /\ last.toCommit = <<"U+0D9A">>

\* C23 (algebraic): converting a string of punctuation, digits and
\* whitespace only returns it unchanged, so converting the result again
\* returns it again, and converting the empty string returns the empty
\* string.
C23_PreservedUnchanged ==
  (pc = "done" /\ Range(text) \subseteq NonPhonetic)
    => /\ output = text
       /\ convertSinglishToSinhala(output) = output
       /\ text = <<>> => output = <<>>

\* "1?" converted to itself
C23_Witness ==
  /\ pc = "done"
  /\ text = <<"1", "?">>
  /\ phonemes = <<"1", "?">>
  /\ output = <<"1", "?">>

\* C24 (invariant): the tokens of the batch tokenizer consume contiguous,
\* non-overlapping ranges of the input from left to right: every token
\* pushed covers the characters from the position the previous one ended at
\* up to the new position, which are its pattern or the one unmatched
\* character, and the tokenizer ends at the input length, so the lengths
\* sum to it and every character is consumed by exactly one token.
C24_SpansCoverInput ==
  /\ [](pc = "start" => pos = 0 /\ phonemes = <<>>)
  /\ [](pos <= Len(text))
  /\ [](pc \in {"render", "done"} => pos = Len(text))
  /\ [][phonemes' # phonemes
          => /\ phonemes' = Append(phonemes, phonemes'[Len(phonemes')])
             /\ pos < pos'
             /\ LET span == SubSeq(text, pos + 1, pos')
                    token == phonemes'[Len(phonemes')]
                IN  \/ <<span, token>> \in Range(SINGLISH_TO_PHONEME)
                    \/ span = <<token>> /\ MatchingAt(text, pos) = {}]_vars

\* "aak" consumed by two tokens of lengths 2 and 1
C24_Witness ==
  /\ pc = "done"
  /\ text = <<"a", "a", "k">>
  /\ phonemes = <<"V_AA", "K">>
  /\ pos = 3

\* the whitespace characters
Whitespace == {" ", "\n", "\t"}

\* the greatest element of a non-empty set of numbers
Max(S) == CHOOSE m \in S : \A n \in S : n <= m

\* C25 (functional correctness): convertLastWord(text) returns the part of
\* text up to and including its last whitespace character unchanged,
\* followed by the batch conversion of the part after it; with no
\* whitespace it converts all of text, and a text that ends with
\* whitespace is returned unchanged.
C25_LastWord ==
  pc = "convertLastWord" =>
    LET ws == {i \in DOMAIN text : text[i] \in Whitespace}
    IN  IF ws = {}
        THEN output = convertSinglishToSinhala(text)
        ELSE output = SubSeq(text, 1, Max(ws))
                        \o convertSinglishToSinhala(
                             SubSeq(text, Max(ws) + 1, Len(text)))

\* the code points of the Sinhala block, U+0D80..U+0DFF
SinhalaBlock == 3456..3583

\* C26 (algebraic): segmentText splits its input into maximal contiguous
\* runs: the segment texts concatenated in order are the input, no segment
\* is empty, every character of a segment is in the Sinhala block exactly
\* when the segment's isSinhala is true, and adjacent segments have
\* opposite isSinhala flags.
C26_Segments ==
  pc = "segmentText" =>
    /\ Flatten([i \in DOMAIN output |-> output[i].text]) = text
    /\ \A i \in DOMAIN output :
         /\ output[i].text # <<>>
         /\ output[i].isSinhala \in BOOLEAN
         /\ \A j \in DOMAIN output[i].text :
              (charCodeAt[output[i].text[j]] \in SinhalaBlock)
                = output[i].isSinhala
    /\ \A i \in 1..(Len(output) - 1) :
         output[i].isSinhala # output[i + 1].isSinhala

\* a letter, the first code point of the block and a joiner, in three
\* segments
C26_Witness ==
  /\ pc = "segmentText"
  /\ text = <<"k", "U+0D80", "U+200D">>
  /\ output = <<[text |-> <<"k">>, isSinhala |-> FALSE],
                [text |-> <<"U+0D80">>, isSinhala |-> TRUE],
                [text |-> <<"U+200D">>, isSinhala |-> FALSE]>>

\* C27 (error handling): a pattern list with a duplicate surface form is
\* rejected when the trie is built from it: no trie is returned for it.
C27_RejectsMalformed ==
  pc = "built" => \A j, k \in DOMAIN text : j # k => text[j] # text[k]

\* the phoneme tokens the table maps a phonetic surface form to: the
\* entries that are not a preserved character standing for itself
PhoneticTokens ==
  {e[2] : e \in {f \in Range(SINGLISH_TO_PHONEME) : f[1] # <<f[2]>>}}

\* the classes of the renderer, in the order of its branches
RendererClasses ==
  <<CONSONANT_SET, SANYAKA_SET, {N_G_TOKEN}, VOWEL_SET, DOMAIN SPECIAL_MAP>>

\* the classes a token belongs to
ClassesOf(token) == {c \in DOMAIN RendererClasses : token \in RendererClasses[c]}

\* every phonetic token is in exactly one class, the classes are pairwise
\* disjoint, the attachable vowels are vowels, and the surface forms of
\* the table are distinct
ClassificationSound ==
  /\ \A token \in PhoneticTokens : Cardinality(ClassesOf(token)) = 1
  /\ \A c, d \in DOMAIN RendererClasses :
       c # d => RendererClasses[c] \cap RendererClasses[d] = {}
  /\ VOWEL_MODIFIER_SET \subseteq VOWEL_SET
  /\ TablePatternsDistinct

\* C28 (invariant): every phoneme token the pattern table maps a phonetic
\* surface form to belongs to exactly one of the renderer's classes
\* (regular consonant, nasalized consonant, the ng digraph, vowel, special
\* mark); the classes are pairwise disjoint, the attachable vowels are a
\* subset of the vowels, and no two table entries share a surface form.
\* So every token of a tokenized text is in one class or is a character
\* that stands for itself.
C28_Classification ==
  /\ ClassificationSound
  /\ pc \in {"render", "done"}
       => \A i \in DOMAIN phonemes :
            \/ Cardinality(ClassesOf(phonemes[i])) = 1
            \/ phonemes[i] \in PreservedChars

\* "kngx" tokenized: a consonant, the ng digraph and a special mark
C28_Witness ==
  /\ pc = "done"
  /\ text = <<"k", "n", "g", "x">>
  /\ phonemes = <<"K", "N_G", "ANUSVARA">>
  /\ ClassesOf("K") = {1}
  /\ ClassesOf("N_G") = {3}
  /\ ClassesOf("ANUSVARA") = {5}

\* C29 (frame effect): resolver instances are independent: a call on one
\* SinglishIME instance leaves the buffer of the other instance unchanged,
\* and no call changes the shared pattern trie after it has been built.
C29_Independent ==
  /\ [][last' # last => other' = other]_vars
  /\ [][other' # other => buffer' = buffer /\ last' = last]_vars
  /\ [](output = buildTrie(SINGLISH_PATTERNS))

\* the first instance was reset while "ka" is pending in the second
C29_Witness ==
  /\ last.op = "reset"
  /\ last.before = <<"k">>
  /\ buffer = <<>>
  /\ other = <<"k", "a">>

\* a token of the final branch of phonemesToSinhala: in no renderer class
IsPassthroughToken(token) == token # UNDEFINED /\ ClassesOf(token) = {}

\* C30 (functional correctness): a regular consonant at the end of a word
\* is rendered with a virama: when it is the last token, or the token after
\* it is any passthrough token (whitespace, punctuation, a digit or an
\* unmapped character), the iteration pushes glyph + virama and consumes
\* the consonant alone, as for the same consonant at the end of input.
C30_EndOfWord ==
  (/\ pc = "render"
   /\ idx < Len(phonemes)
   /\ At(phonemes, idx) \in CONSONANT_SET
   /\ \/ At(phonemes, idx + 1) = UNDEFINED
      \/ IsPassthroughToken(At(phonemes, idx + 1)))
    => /\ RenderStep(phonemes, idx)
            = [out |-> <<CONSONANT_MAP[At(phonemes, idx)], HAL>>, advance |-> 1]
       /\ RenderStep(phonemes, idx)
            = RenderStep(<<At(phonemes, idx)>>, 0)

\* ------------------------------------------------------------------------
\* Claims about the "ng" digraph, the cut of resolveBuffer, and the
\* agreement of the trie with the table
\* ------------------------------------------------------------------------

\* C31 (refinement): the "ng" digraph is rendered as the two consonants n
\* and g: for every continuation, the iteration at the "ng" token pushes
\* the n glyph with virama followed by what the regular-consonant rules
\* (cluster detection, vowel sign, inherent vowel, virama, special mark)
\* push for a plain g before the same continuation, and consumes the same
\* number of tokens.
C31_NGAsPlainG ==
  (/\ pc = "render"
   /\ idx < Len(phonemes)
   /\ At(phonemes, idx) = N_G_TOKEN)
    => LET s == RenderStep(phonemes, idx)
           g == RenderConsonant("G", At(phonemes, idx + 1),
                                At(phonemes, idx + 2))
       IN  /\ s.out = <<CONSONANT_MAP["N"], HAL>> \o g.out
           /\ s.advance = g.advance

\* the token of a scan that ends at offset p, and the one that starts
\* there, each as a sequence of at most one token
TokenEndingAt(tokens, p) ==
  SelectSeq(tokens, LAMBDA t : t.start + t.length = p)

TokenStartingAt(tokens, p) == SelectSeq(tokens, LAMBDA t : t.start = p)

\* a token that is a consonant pattern
IsConsonantToken(t) == ~t.isPassthrough /\ t.pattern \in CONSONANT_PATTERNS

\* the cut at offset commitEnd of buf holds no consonant apart from a
\* token that could still attach to it or grow
CutRule(buf, commitEnd) ==
  LET scan == ScanTokens(buf, 0, <<>>)
      prev == TokenEndingAt(scan.tokens, commitEnd)
      pending == TokenStartingAt(scan.tokens, commitEnd)
  IN  /\ Len(prev) = 1
      /\ IsConsonantToken(prev[1])
           => /\ \A k \in DOMAIN pending :
                   /\ pending[k].pattern \notin VOWEL_PATTERNS
                   /\ ~hasLongerPattern(pending[k].pattern)
              /\ scan.trailingPrefixStart # commitEnd

LastTokenStart(buf) ==
  LET scan == ScanTokens(buf, 0, <<>>)
  IN  IF scan.trailingPrefixStart >= 0 THEN scan.trailingPrefixStart
      ELSE scan.tokens[Len(scan.tokens)].start

\* buf is one Passthrough character
IsLonePassthrough(buf) ==
  LET scan == ScanTokens(buf, 0, <<>>)
  IN  /\ Len(buf) = 1
      /\ scan.trailingPrefixStart = -1
      /\ scan.tokens[1].isPassthrough

PhoneticForms ==
  {e[1] : e \in {f \in Range(SINGLISH_TO_PHONEME) : f[1] # <<f[2]>>}}

\* the length of the longest phonetic surface form at txt[p..], 0 if none
LongestFormAt(txt, p) ==
  Max({0} \cup {n \in 1..(Len(txt) - p) :
                  substring(txt, p, p + n) \in PhoneticForms})

\* the trie's pattern list holds exactly the phonetic surface forms, each
\* once
PatternListIsTable ==
  /\ Range(SINGLISH_PATTERNS) = PhoneticForms
  /\ \A j, k \in DOMAIN SINGLISH_PATTERNS :
       j # k => SINGLISH_PATTERNS[j] # SINGLISH_PATTERNS[k]

\* the resolver's match and the batch tokenizer's step at position p of txt
AgreeAt(txt, p) ==
  LET k == FirstMatch(txt, p)
      n == longestMatchAt(txt, p)
  IN  /\ n = LongestFormAt(txt, p)
      /\ IF k # 0 /\ SINGLISH_TO_PHONEME[k][1] \in PhoneticForms
         THEN n = TokenizerStep(txt, p).length
         ELSE n = 0

\* C34 (refinement): the resolver and the batch tokenizer agree on
\* tokenization: at every position of every text longestMatchAt returns the
\* length of the longest registered phonetic surface form that starts
\* there, 0 if none, which is the number of characters the batch tokenizer
\* consumes there for a phonetic pattern; and the trie's pattern list is
\* exactly the set of phonetic surface forms of the converter's table.
C34_TokenizersAgree ==
  /\ PatternListIsTable
  /\ pc = "done" => \A p \in 0..(Len(text) - 1) : AgreeAt(text, p)

\* "zgak" tokenized: the tokenizer consumed the three characters of "zga",
\* the longest match of the resolver there, and then the one of "k"
C34_Witness ==
  /\ pc = "done"
  /\ text = <<"z", "g", "a", "k">>
  /\ phonemes = <<"SANYAKA_GA", "K">>
  /\ longestMatchAt(text, 0) = 3
  /\ longestMatchAt(text, 3) = 1

\* ------------------------------------------------------------------------
\* Claims about the React hook, auto-attach and the UI toggle
\* ------------------------------------------------------------------------

\* C35 (safety): when the caret is moved by anything other than IME typing,
\* or the focus is lost, while the pending buffer is not empty, the buffer
\* is flushed and cleared before any further keystroke is processed: no
\* character is fed or spliced while a caret move is outstanding, so the
\* text that was in the textarea is never spliced over.
C35_FlushOnCaretMove ==
  /\ [][host'.applied # host.applied => ~(host.moved /\ buffer # <<>>)]_vars
  /\ [](Count("#", host.valueState) = 1)

\* C36 (concurrency): with mobileSupport every text input of one character
\* is fed exactly once, for every interleaving of keydown and beforeinput
\* events: the beforeinput of a keydown that onKeyDown handled is skipped,
\* and an insertText beforeinput that belongs to no handled keydown is
\* processed: when no beforeinput is due, the characters applied are the
\* characters put in.
C36_FedExactlyOnce ==
  host.owed.prevented => host.applied = host.inputs

\* C37 (temporal): after stop(), while isRunning() is false, conversion is
\* no longer applied: a key pressed in an element, attached earlier or not,
\* is not intercepted and not fed to an IME, until start() is called again.
C37_StoppedMeansOff ==
  /\ [](host.event = "keydown" /\ ~host.isRunning => ~host.intercepted)
  /\ [][~host.isRunning /\ ~host'.isRunning
          => buffer' = buffer /\ other' = other]_vars

\* C38 (invariant): over any sequence of start(), stop(), toggle() and
\* DOM mutations that report an element again and again, an element has
\* at most one SinglishIME and one keydown/blur listener pair, an element
\* that matches the exclude selector has none, and at most one
\* MutationObserver is connected: one exactly when isRunning() is true.
C38_AttachedOnce ==
  /\ \A e \in Elements :
       /\ host.imeInstances[e] <= 1
       /\ host.listeners[e] <= 1
       /\ host.listeners[e] = host.imeInstances[e]
       /\ e \in host.attachedElements <=> host.imeInstances[e] = 1
       /\ e \in Excluded => host.imeInstances[e] = 0
  /\ host.connected <= 1
  /\ host.isRunning <=> host.connected = 1
  /\ host.isRunning <=> host.observer # "null"

\* e1 was handed to attachToElement three times, the last time by the
\* observer, and the excluded e3 once: e1 has one IME and one listener pair
C38_Witness ==
  /\ host.event = "mutation"
  /\ host.element = "e1"
  /\ host.calls["e1"] = 3
  /\ host.calls["e3"] = 1
  /\ host.listeners["e1"] = 1
  /\ host.imeInstances["e1"] = 1
  /\ host.imeInstances["e3"] = 0
  /\ host.isRunning

\* C39 (invariant): where localStorage exists, the flag of the toggle and
\* the value it persists stay in step: once click toggles or setEnabled
\* calls have changed the flag, the stored 'singlish-enabled' item is the
\* flag getEnabled() returns; a toggle created afterwards starts with that
\* value, and with true when nothing was ever stored; onToggle is called
\* once per click toggle, with the new value.
C39_FlagPersisted ==
  /\ (host.hasStorage /\ host.changed)
       => host.stored = String(getEnabled(host))
  /\ (host.hasStorage /\ host.event = "create")
       => /\ getEnabled(host) = host.previous
          /\ host.stored # NoItem => String(getEnabled(host)) = host.stored
          /\ host.stored = NoItem => getEnabled(host)
  /\ Len(host.onToggle) = host.clicks
  /\ host.event = "click" => host.onToggle[host.clicks] = getEnabled(host)

\* a click turned the first toggle off, setEnabled(false) changed nothing,
\* and the toggle created after that starts off
C39_Witness ==
  /\ host.hasStorage
  /\ host.event = "create"
  /\ host.events = 3
  /\ host.onToggle = <<FALSE>>
  /\ host.stored = "false"
  /\ ~getEnabled(host)

=============================================================================
